---------------------------- MODULE Spec2Model ----------------------------
(***************************************************************************)
(* Model of the chatbot turn pipeline of pharmalist-dbversion:             *)
(*   backend/app/routes/chatbot.py   (chat_query, clear_session, health)   *)
(*   backend/app/chatbot/nodes.py    (the graph nodes and session memory)  *)
(*   backend/app/chatbot/state_machine.py (the order of the nodes)         *)
(*                                                                         *)
(* Python strings are sequences of one-character strings, so that lower(), *)
(* strip(), the "in" substring test, slicing and the FROM regular          *)
(* expression are computed as the code computes them.                      *)
(***************************************************************************)
EXTENDS Integers, Sequences, FiniteSets, TLC

(***************************************************************************)
(* Python values                                                           *)
(***************************************************************************)

\* Python None where a string is expected (no real string holds a
\* multi-character element)
None == <<"None">>

Whitespace == {" ", "\t", "\n"}

UpperChars ==
  <<"A","B","C","D","E","F","G","H","I","J","K","L","M",
    "N","O","P","Q","R","S","T","U","V","W","X","Y","Z">>

LowerChars ==
  <<"a","b","c","d","e","f","g","h","i","j","k","l","m",
    "n","o","p","q","r","s","t","u","v","w","x","y","z">>

DigitChars == <<"0","1","2","3","4","5","6","7","8","9">>

\* str.lower() on one character
LowerChar(c) ==
  IF \E i \in 1..26 : UpperChars[i] = c
  THEN LowerChars[CHOOSE i \in 1..26 : UpperChars[i] = c]
  ELSE c

\* str.upper() on one character
UpperChar(c) ==
  IF \E i \in 1..26 : LowerChars[i] = c
  THEN UpperChars[CHOOSE i \in 1..26 : LowerChars[i] = c]
  ELSE c

\* str.lower()
Lower(s) == [i \in 1..Len(s) |-> LowerChar(s[i])]

\* str.upper()
Upper(s) == [i \in 1..Len(s) |-> UpperChar(s[i])]

\* str.strip(): leading and trailing whitespace removed
Strip(s) ==
  LET keep == {i \in 1..Len(s) : s[i] \notin Whitespace}
  IN  IF keep = {} THEN <<>>
      ELSE LET lo == CHOOSE i \in keep : \A j \in keep : i <= j
               hi == CHOOSE i \in keep : \A j \in keep : j <= i
           IN  SubSeq(s, lo, hi)

\* Python's  sub in s  on strings
Contains(sub, s) ==
  \E i \in 1..(Len(s) - Len(sub) + 1) : SubSeq(s, i, i + Len(sub) - 1) = sub

\* Python's  s[:n]
Prefix(s, n) == SubSeq(s, 1, IF Len(s) < n THEN Len(s) ELSE n)

\* Python's  s[-n:]
Suffix(s, n) == SubSeq(s, IF Len(s) > n THEN Len(s) - n + 1 ELSE 1, Len(s))

\* str(n) for n >= 0
RECURSIVE Digits(_)
Digits(n) ==
  IF n < 10 THEN <<DigitChars[n + 1]>>
  ELSE Digits(n \div 10) \o <<DigitChars[(n % 10) + 1]>>

\* "sep".join(parts)
RECURSIVE Join(_, _)
Join(sep, parts) ==
  IF parts = <<>> THEN <<>>
  ELSE IF Len(parts) = 1 THEN parts[1]
  ELSE LET half == Len(parts) \div 2
       IN  Join(sep, SubSeq(parts, 1, half)) \o sep
             \o Join(sep, SubSeq(parts, half + 1, Len(parts)))

\* x in list
InList(x, list) == \E i \in 1..Len(list) : list[i] = x

\* [x for x in list if keep(x)], order kept
RECURSIVE Filter(_, _)
Filter(list, keep) ==
  IF list = <<>> THEN <<>>
  ELSE (IF list[1] \in keep THEN <<list[1]>> ELSE <<>>) \o Filter(Tail(list), keep)

\* the characters \w matches
WordChars ==
  {UpperChars[i] : i \in 1..26} \cup {LowerChars[i] : i \in 1..26}
    \cup {DigitChars[i] : i \in 1..10} \cup {"_"}

\* re.search(r'FROM\s+(\w+)', sql, re.IGNORECASE): the places where FROM,
\* at least one whitespace character and a word character follow one another
FromMatches(sql) ==
  {i \in 1..Len(sql) :
     /\ i + 3 <= Len(sql)
     /\ Upper(SubSeq(sql, i, i + 3)) = <<"F","R","O","M">>
     /\ \E j \in (i + 5)..Len(sql) :
          /\ \A k \in (i + 4)..(j - 1) : sql[k] \in Whitespace
          /\ sql[j] \in WordChars}

\* group(1) of the leftmost match: the maximal run of word characters that
\* follows the whitespace (None when nothing matches)
FromTable(sql) ==
  IF FromMatches(sql) = {} THEN None
  ELSE LET i == CHOOSE m \in FromMatches(sql) : \A n \in FromMatches(sql) : m <= n
           j == CHOOSE p \in (i + 5)..Len(sql) :
                  /\ \A k \in (i + 4)..(p - 1) : sql[k] \in Whitespace
                  /\ sql[p] \in WordChars
           e == CHOOSE q \in j..Len(sql) :
                  /\ \A k \in j..q : sql[k] \in WordChars
                  /\ (q = Len(sql) \/ sql[q + 1] \notin WordChars)
       IN  SubSeq(sql, j, e)

(***************************************************************************)
(* Python dicts: a function whose domain is the set of keys present        *)
(***************************************************************************)

EmptyDict == [k \in {} |-> None]

Has(d, k) == k \in DOMAIN d

\* d.get(k, default)
Get(d, k, default) == IF k \in DOMAIN d THEN d[k] ELSE default

\* d[k] = v
Put(d, k, v) == (k :> v) @@ d

\* truth value of an optional string: neither None nor ""
Truthy(s) == s # None /\ s # <<>>

\* an insertion-ordered dict whose values are all True is the sequence of
\* its keys: d[k] = True keeps the place of a key already present
AddKey(keys, k) == IF InList(k, keys) THEN keys ELSE Append(keys, k)

\* d.update(other)
RECURSIVE AddKeys(_, _)
AddKeys(keys, other) ==
  IF other = <<>> THEN keys
  ELSE AddKeys(AddKey(keys, other[1]), Tail(other))

(***************************************************************************)
(* Rows of the data store: a RealDictRow is the ordered sequence of its    *)
(* fields [k: column name, t: type of the value, v: the value as text]     *)
(***************************************************************************)

StrField(k, v) == [k |-> k, t |-> "str", v |-> v]
IntField(k, n) == [k |-> k, t |-> "int", v |-> Digits(n)]
NullField(k) == [k |-> k, t |-> "null", v |-> <<>>]

\* truth value of a field value: a non-empty string, a non-zero integer
FieldTruthy(f) ==
  \/ f.t = "str" /\ f.v # <<>>
  \/ f.t = "int" /\ f.v # <<"0">>

(***************************************************************************)
(* Session memory (nodes.py, MEMORY MANAGEMENT UTILITIES)                  *)
(***************************************************************************)

MaxHistory == 10
PreviewLen == 200
CacheRows == 50
EntityRows == 5
SummaryEvery == 3
SummaryTurns == 5
SummaryQueryLen == 60

NewMemory ==
  [conversation_context |-> <<>>,
   query_history |-> <<>>,
   result_cache |-> EmptyDict,
   entity_references |-> <<>>,
   last_topic |-> None,
   turn_count |-> 0]

\* a memory dict is never empty, so "not state.get('session_memory')" is
\* the absence of the key
initialize_memory(state) ==
  IF Has(state, "session_memory") THEN state
  ELSE Put(state, "session_memory", NewMemory)

\* the table vocabulary of extract_entities
entity_tables ==
  <<<<"l","i","s","t","_","v","e","r","s","i","o","n","s">>,
    <<"t","a","r","g","e","t","_","l","i","s","t","_","e","n","t","r","i","e","s">>,
    <<"h","c","p">>,
    <<"v","e","r","s","i","o","n">>>>

TablePrefix == <<"t","a","b","l","e","_">>
NamePrefix == <<"n","a","m","e","_">>
NameWord == <<"n","a","m","e">>

\* the table_<name> keys of the query text, in vocabulary order
RECURSIVE TableEntities(_, _)
TableEntities(query, tables) ==
  IF tables = <<>> THEN <<>>
  ELSE (IF Contains(tables[1], Lower(query))
        THEN <<TablePrefix \o tables[1]>> ELSE <<>>)
       \o TableEntities(query, Tail(tables))

\* the name_<value> keys of one row, in column order
RECURSIVE RowNameEntities(_)
RowNameEntities(row) ==
  IF row = <<>> THEN <<>>
  ELSE (IF Contains(NameWord, Lower(row[1].k)) /\ row[1].t = "str"
        THEN <<NamePrefix \o row[1].v>> ELSE <<>>)
       \o RowNameEntities(Tail(row))

RECURSIVE RowsNameEntities(_)
RowsNameEntities(rows) ==
  IF rows = <<>> THEN <<>>
  ELSE RowNameEntities(rows[1]) \o RowsNameEntities(Tail(rows))

\* the keys of the dict extract_entities returns, in insertion order
extract_entities(query, rows) ==
  AddKeys(<<>>, TableEntities(query, entity_tables)
                  \o RowsNameEntities(Prefix(rows, EntityRows)))

NoPreviousConversation == <<"N","o"," ","p","r","e","v","i","o","u","s"," ","c","o","n","v","e","r","s","a","t","i","o","n",".">>

\* the one-element "->" stands for the arrow character of the source
SummaryLine(record) ==
  <<"T","u","r","n"," ">> \o Digits(record.turn) \o <<":"," ","A","s","k","e","d"," ","a","b","o","u","t"," ","'">>
    \o Prefix(record.query, SummaryQueryLen) \o <<".",".",".","'"," ">>
    \o <<"->", " ">> \o Digits(record.row_count) \o <<" ","r","e","s","u","l","t","s">>

summarize_conversation_context(query_history) ==
  IF query_history = <<>> THEN NoPreviousConversation
  ELSE LET recent == Suffix(query_history, SummaryTurns)
       IN  Join(<<"\n">>, [i \in 1..Len(recent) |-> SummaryLine(recent[i])])

TurnPrefix == <<"t","u","r","n","_">>

\* a cache key built from the turn count before its increment
CacheKeyOfOldCount(n) == TurnPrefix \o Digits(n - 1)

\* f"turn_{n}"
CacheKey(n) == TurnPrefix \o Digits(n)

FromWord == <<"F","R","O","M">>

\* the TurnRecord update_memory appends (the timestamp, which nothing
\* reads, is left out)
QueryRecord(state, turn) ==
  LET response == Get(state, "response", <<>>)
  IN  [turn |-> turn,
       query |-> Get(state, "user_query", <<>>),
       sql |-> Get(state, "generated_sql", None),
       row_count |-> Len(Get(state, "rows", <<>>)),
       response_summary |->
         IF Truthy(response) THEN Prefix(response, PreviewLen) ELSE <<>>]

\* a trim that keeps the first records instead of the last (history[:10])
TrimHistoryKeepsOldest(history) ==
  IF Len(history) > MaxHistory THEN Prefix(history, MaxHistory) ELSE history

\* keep only the last MaxHistory records
TrimHistory(history) ==
  IF Len(history) > MaxHistory THEN Suffix(history, MaxHistory) ELSE history

\* a memory update that caches whatever the turn produced
ShouldCacheAlways(sql, rows) == TRUE

\* a memory update that asks for a query only, whatever it returned
ShouldCacheAnyQuery(sql, rows) == Truthy(sql)

\* line 87: if sql and rows
ShouldCache(sql, rows) == Truthy(sql) /\ rows # <<>>

\* a cache entry whose count is the number of rows it kept
CachedResultCountsKept(sql, rows) ==
  [sql |-> sql, rows |-> Prefix(rows, CacheRows),
   full_count |-> Len(Prefix(rows, CacheRows))]

\* lines 89-93: the query, its first 50 rows and the number of rows
CachedResult(sql, rows) ==
  [sql |-> sql, rows |-> Prefix(rows, CacheRows), full_count |-> Len(rows)]

\* a cache that loses its entries together with the records of the history
UpdatedCacheTrimmedWithHistory(cache, turn, sql, rows) ==
  LET stored == IF ShouldCache(sql, rows)
                THEN Put(cache, CacheKey(turn), CachedResult(sql, rows))
                ELSE cache
      kept == {k \in DOMAIN stored :
                 \E n \in 1..turn : n > turn - MaxHistory /\ k = CacheKey(n)}
  IN  [k \in kept |-> stored[k]]

\* lines 87-93: the entry of this turn is added; nothing is ever removed
UpdatedCache(cache, turn, sql, rows) ==
  IF ShouldCache(sql, rows)
  THEN Put(cache, CacheKey(turn), CachedResult(sql, rows))
  ELSE cache

update_memory(state) ==
  LET s0 == initialize_memory(state)
      memory == s0.session_memory
      turn == memory.turn_count + 1
      query == Get(s0, "user_query", <<>>)
      sql == Get(s0, "generated_sql", None)
      rows == Get(s0, "rows", <<>>)
      history == TrimHistory(Append(memory.query_history, QueryRecord(s0, turn)))
      caches == ShouldCache(sql, rows)
      cache == UpdatedCache(memory.result_cache, turn, sql, rows)
      table ==
        IF caches /\ Contains(FromWord, Upper(sql)) THEN FromTable(sql) ELSE None
      m1 == [memory EXCEPT !.turn_count = turn,
                           !.query_history = history,
                           !.result_cache = cache,
                           !.entity_references =
                              AddKeys(@, extract_entities(query, rows)),
                           !.last_topic =
                              IF Truthy(Get(s0, "query_type", None))
                              THEN s0.query_type ELSE @]
      m2 == IF table # None THEN Put(m1, "last_table", table) ELSE m1
      m3 == IF turn % SummaryEvery = 0
            THEN [m2 EXCEPT !.conversation_context =
                               summarize_conversation_context(history)]
            ELSE m2
      s1 == IF table # None
            THEN [s0 EXCEPT !.session_context.current_table = table]
            ELSE s0
  IN  [s1 EXCEPT !.session_memory = m3]

(***************************************************************************)
(* ROUTER (nodes.py, router_node)                                          *)
(***************************************************************************)

NewSessionContext ==
  [current_table |-> None,
   last_query_type |-> None,
   last_results_summary |-> <<>>,
   mentioned_tables |-> <<>>,
   last_sql_query |-> None,
   last_result_count |-> 0]

pure_greetings ==
  <<<<"h","e","l","l","o">>, <<"h","i">>, <<"h","e","y">>, <<"t","h","a","n","k","s">>, <<"t","h","a","n","k"," ","y","o","u">>, <<"b","y","e">>,
    <<"g","o","o","d"," ","m","o","r","n","i","n","g">>, <<"g","o","o","d"," ","e","v","e","n","i","n","g">>>>

meta_questions ==
  <<<<"h","o","w"," ","d","o"," ","y","o","u"," ","w","o","r","k">>, <<"w","h","a","t"," ","c","a","n"," ","y","o","u"," ","d","o">>, <<"h","e","l","p"," ","m","e">>,
    <<"h","o","w"," ","d","o","e","s"," ","t","h","i","s"," ","w","o","r","k">>>>

\* the table vocabulary of the router
router_tables ==
  <<<<"l","i","s","t","_","v","e","r","s","i","o","n","s">>, <<"t","a","r","g","e","t","_","l","i","s","t","_","e","n","t","r","i","e","s">>, <<"v","e","r","s","i","o","n">>, <<"e","n","t","r","y">>,
    <<"h","c","p">>, <<"l","i","s","t">>>>

\* lines 226-232: computed by the router, and read by nothing after it
has_entity_reference(memory, query) ==
  \E i \in 1..Len(memory.entity_references) :
    Contains(Lower(memory.entity_references[i]), query)

is_pure_greeting(query) ==
  \E stripped \in {Strip(query)} : InList(Lower(stripped), pure_greetings)

is_meta(query) ==
  \E i \in 1..Len(meta_questions) : Contains(meta_questions[i], query)

\* a decision in which an entity of the index found in the text forces SQL
needs_sql_entity_forced(memory, query) ==
  IF has_entity_reference(memory, query) THEN TRUE
  ELSE IF is_pure_greeting(query) \/ is_meta(query) THEN FALSE ELSE TRUE

\* lines 246-254: SQL for everything except pure greetings and meta questions
needs_sql_decision(memory, query) ==
  IF is_pure_greeting(query) \/ is_meta(query) THEN FALSE ELSE TRUE

\* lines 256-262: every vocabulary name found in the query is appended to
\* mentioned_tables unless present, and becomes current_table
TrackTables(ctx, query, tables) ==
  LET found == SelectSeq(tables, LAMBDA t : Contains(t, query))
      added == SelectSeq(found, LAMBDA t : ~InList(t, ctx.mentioned_tables))
  IN  IF found = <<>> THEN ctx
      ELSE [ctx EXCEPT !.mentioned_tables = @ \o added,
                       !.current_table = found[Len(found)]]

router_node(state) ==
  LET s0 == initialize_memory(state)
      query == Lower(Get(s0, "user_query", <<>>))
      s1 == IF Has(s0, "session_context") THEN s0
            ELSE Put(s0, "session_context", NewSessionContext)
      ctx == TrackTables(s1.session_context, query, router_tables)
      s2 == [s1 EXCEPT !.session_context = ctx]
  IN  Put(Put(s2, "needs_sql", needs_sql_decision(s0.session_memory, query)),
          "is_clarification", FALSE)

(***************************************************************************)
(* CLASSIFY (nodes.py, classify_query_node)                                *)
(***************************************************************************)

ClassifyRecent == 3
ClassifyQueryLen == 40

\* what the classification prompt embeds
ClassifyPrompt(state) ==
  LET s0 == initialize_memory(state)
      recent == Suffix(s0.session_memory.query_history, ClassifyRecent)
  IN  [kind |-> "classify",
       current_table |-> s0.session_context.current_table,
       recent |-> [i \in 1..Len(recent) |->
                     Prefix(recent[i].query, ClassifyQueryLen)],
       query |-> Get(s0, "user_query", <<>>)]

ConversationType == <<"c","o","n","v","e","r","s","a","t","i","o","n">>

\* the node when the router asked for no SQL (lines 296-298)
classify_skip(state) == Put(state, "query_type", ConversationType)

\* the node once the completion engine has answered with `content`
classify_query_node(state, content) ==
  LET s0 == initialize_memory(state)
      category == Lower(Strip(content))
  IN  [Put(s0, "query_type", category)
         EXCEPT !.session_context.last_query_type = category]

(***************************************************************************)
(* GENERATE SQL (nodes.py, generate_sql_node)                              *)
(***************************************************************************)

ContextTurns == 5
ContextQueryLen == 80
ContextSqlLen == 100
ContextEntities == 10

Unknown == <<"u","n","k","n","o","w","n">>
NotAvailable == <<"N","/","A">>

\* lines 370-387: the loop over the last ContextTurns records keeps the SQL
\* and the text of the last record that has SQL, and the table of the last
\* record whose SQL matches the FROM pattern
RECURSIVE LastQuery(_, _)
LastQuery(records, acc) ==
  IF records = <<>> THEN acc
  ELSE LET r == records[1]
           hit == Truthy(r.sql) /\ Contains(FromWord, Upper(r.sql))
                    /\ FromTable(r.sql) # None
       IN  LastQuery(Tail(records),
             IF Truthy(r.sql)
             THEN [last_sql |-> r.sql,
                   last_query_text |-> r.query,
                   last_table |-> IF hit THEN FromTable(r.sql) ELSE acc.last_table]
             ELSE acc)

\* "x or default" on optional strings
OrElse(x, default) == IF Truthy(x) THEN x ELSE default

\* the context packet that the composition prompt embeds (lines 362-423)
ComposerContext(state) ==
  LET s0 == initialize_memory(state)
      memory == s0.session_memory
      ctx == s0.session_context
      recent == Suffix(memory.query_history, ContextTurns)
      last == LastQuery(recent, [last_sql |-> None, last_query_text |-> None,
                                 last_table |-> None])
  IN  [kind |-> "compose",
       current_table |-> ctx.current_table,
       last_table |-> Get(memory, "last_table", Unknown),
       mentioned_tables |-> Join(<<","," ">>, ctx.mentioned_tables),
       recent |-> [i \in 1..Len(recent) |->
                     [turn |-> recent[i].turn,
                      query |-> Prefix(recent[i].query, ContextQueryLen),
                      sql |-> IF Truthy(recent[i].sql)
                              THEN Prefix(recent[i].sql, ContextSqlLen)
                              ELSE None]],
       most_recent |->
         IF Truthy(last.last_sql) /\ Truthy(last.last_query_text)
         THEN [asked |-> last.last_query_text,
               sql |-> last.last_sql,
               table |-> OrElse(last.last_table, Unknown)]
         ELSE [asked |-> None, sql |-> None, table |-> None],
       entities |-> Prefix(memory.entity_references, ContextEntities),
       summary |-> memory.conversation_context,
       recent_table |->
         OrElse(last.last_table, Get(memory, "last_table", NotAvailable)),
       recent_sql |-> OrElse(last.last_sql, NotAvailable),
       question |-> Get(s0, "user_query", <<>>)]

\* the node when the router asked for no SQL (lines 351-353)
generate_sql_skip(state) == Put(state, "generated_sql", None)

\* the node once the completion engine has answered with `content`
generate_sql_node(state, content) ==
  LET s0 == initialize_memory(state)
      sql_query == Strip(content)
  IN  [Put(s0, "generated_sql", sql_query)
         EXCEPT !.session_context.last_sql_query = sql_query]

(***************************************************************************)
(* EXECUTE SQL (nodes.py, execute_sql_node)                                *)
(***************************************************************************)

\* line 486: nothing is sent to the data store
execute_skips(state) ==
  ~Get(state, "needs_sql", FALSE) \/ ~Truthy(Get(state, "generated_sql", None))

execute_sql_skip(state) == Put(state, "rows", <<>>)

\* lines 497-505: the statement ran and fetchall returned `rows`
execute_sql_ok(state, rows) ==
  [Put(state, "rows", rows)
     EXCEPT !.session_context.last_results_summary =
               <<"R","e","t","r","i","e","v","e","d"," ">> \o Digits(Len(rows)) \o <<" ","r","o","w","s">>,
            !.session_context.last_result_count = Len(rows)]

\* an except branch that empties the rows and records nothing
execute_sql_error_unrecorded(state, reason) == Put(state, "rows", <<>>)

\* lines 507-510: connect, execute or fetchall raised `reason`
execute_sql_error(state, reason) ==
  [Put(state, "rows", <<>>)
     EXCEPT !.session_context.last_results_summary = <<"E","r","r","o","r",":"," ">> \o reason]

(***************************************************************************)
(* SUMMARIZE (nodes.py, summarizer_node)                                   *)
(***************************************************************************)

ShowAllLimit == 100
sample_size == 20
FallbackFields == 5
SampleFallbackFields == 4

list_types == <<<<"l","i","s","t","_","a","l","l">>, <<"a","d","_","h","o","c","_","s","e","l","e","c","t">>>>

\* priority_fields of the show-all branch (lines 658-659)
priority_fields_all ==
  <<<<"h","c","p","_","n","a","m","e">>, <<"n","a","m","e">>, <<"s","y","s","t","e","m","_","n","a","m","e">>, <<"t","i","t","l","e">>, <<"s","p","e","c","i","a","l","t","y">>,
    <<"c","o","n","t","a","c","t","_","n","a","m","e">>, <<"s","y","s","t","e","m","_","i","d">>, <<"h","c","p","_","i","d">>, <<"t","i","e","r">>, <<"i","m","p","o","r","t","a","n","c","e">>>>

\* priority_fields of the sample branch (lines 727-728)
priority_fields_sample ==
  <<<<"h","c","p","_","n","a","m","e">>, <<"n","a","m","e">>, <<"s","y","s","t","e","m","_","n","a","m","e">>, <<"t","i","t","l","e">>, <<"s","p","e","c","i","a","l","t","y">>,
    <<"c","o","n","t","a","c","t","_","n","a","m","e">>, <<"s","y","s","t","e","m","_","i","d">>, <<"t","i","e","r">>>>

\* priority_fields of the generic branch (lines 785-787)
priority_fields_other ==
  <<<<"h","c","p","_","n","a","m","e">>, <<"n","a","m","e">>, <<"s","y","s","t","e","m","_","n","a","m","e">>, <<"t","i","t","l","e">>, <<"s","p","e","c","i","a","l","t","y">>,
    <<"c","o","n","t","a","c","t","_","n","a","m","e">>, <<"s","y","s","t","e","m","_","i","d">>, <<"h","c","p","_","i","d">>, <<"t","i","e","r">>, <<"i","m","p","o","r","t","a","n","c","e">>,
    <<"c","o","n","t","a","c","t","_","e","m","a","i","l">>, <<"r","e","v","e","n","u","e">>, <<"p","h","o","n","e">>, <<"a","d","d","r","e","s","s">>>>

housekeeping_fields == {<<"i","d">>, <<"c","r","e","a","t","e","d","_","a","t">>, <<"u","p","d","a","t","e","d","_","a","t">>, <<"v","e","r","s","i","o","n","_","i","d">>}

housekeeping_fields_sample == {<<"i","d">>, <<"c","r","e","a","t","e","d","_","a","t">>, <<"u","p","d","a","t","e","d","_","a","t">>}

\* field_labels of the show-all and the generic branch
field_labels ==
  <<<<<<"h","c","p","_","n","a","m","e">>, <<"N","a","m","e">>>>, <<<<"n","a","m","e">>, <<"N","a","m","e">>>>,
    <<<<"s","y","s","t","e","m","_","n","a","m","e">>, <<"S","y","s","t","e","m">>>>, <<<<"t","i","t","l","e">>, <<"T","i","t","l","e">>>>,
    <<<<"s","p","e","c","i","a","l","t","y">>, <<"S","p","e","c","i","a","l","t","y">>>>, <<<<"c","o","n","t","a","c","t","_","n","a","m","e">>, <<"C","o","n","t","a","c","t">>>>,
    <<<<"s","y","s","t","e","m","_","i","d">>, <<"I","D">>>>, <<<<"h","c","p","_","i","d">>, <<"H","C","P"," ","I","D">>>>,
    <<<<"t","i","e","r">>, <<"T","i","e","r">>>>, <<<<"i","m","p","o","r","t","a","n","c","e">>, <<"I","m","p","o","r","t","a","n","c","e">>>>,
    <<<<"c","o","n","t","a","c","t","_","e","m","a","i","l">>, <<"E","m","a","i","l">>>>, <<<<"p","h","o","n","e">>, <<"P","h","o","n","e">>>>,
    <<<<"a","d","d","r","e","s","s">>, <<"A","d","d","r","e","s","s">>>>, <<<<"c","i","t","y">>, <<"C","i","t","y">>>>,
    <<<<"s","t","a","t","e">>, <<"S","t","a","t","e">>>>, <<<<"n","p","i">>, <<"N","P","I">>>>,
    <<<<"r","e","v","e","n","u","e">>, <<"R","e","v","e","n","u","e">>>>, <<<<"p","r","e","s","c","r","i","b","e","r","_","t","y","p","e">>, <<"T","y","p","e">>>>>>

\* field_labels of the sample branch (lines 737-742)
field_labels_sample ==
  <<<<<<"h","c","p","_","n","a","m","e">>, <<"N","a","m","e">>>>, <<<<"n","a","m","e">>, <<"N","a","m","e">>>>,
    <<<<"s","y","s","t","e","m","_","n","a","m","e">>, <<"S","y","s","t","e","m">>>>, <<<<"t","i","t","l","e">>, <<"T","i","t","l","e">>>>,
    <<<<"s","p","e","c","i","a","l","t","y">>, <<"S","p","e","c","i","a","l","t","y">>>>, <<<<"c","o","n","t","a","c","t","_","n","a","m","e">>, <<"C","o","n","t","a","c","t">>>>,
    <<<<"s","y","s","t","e","m","_","i","d">>, <<"I","D">>>>, <<<<"t","i","e","r">>, <<"T","i","e","r">>>>,
    <<<<"i","m","p","o","r","t","a","n","c","e">>, <<"I","m","p","o","r","t","a","n","c","e">>>>, <<<<"c","o","n","t","a","c","t","_","e","m","a","i","l">>, <<"E","m","a","i","l">>>>,
    <<<<"r","e","v","e","n","u","e">>, <<"R","e","v","e","n","u","e">>>>>>

NoResultsMessage == <<"N","o"," ","r","e","s","u","l","t","s"," ","f","o","u","n","d"," ","f","o","r"," ","y","o","u","r"," ","q","u","e","r","y",".">>

Letters == {UpperChars[i] : i \in 1..26} \cup {LowerChars[i] : i \in 1..26}

\* field.replace('_', ' ').title()
TitleLabel(field) ==
  LET spaced == [i \in 1..Len(field) |-> IF field[i] = "_" THEN " " ELSE field[i]]
  IN  [i \in 1..Len(spaced) |->
         IF i = 1 \/ spaced[i - 1] \notin Letters
         THEN UpperChar(spaced[i]) ELSE LowerChar(spaced[i])]

\* labels.get(field, field.replace('_', ' ').title())
Label(field, labels) ==
  IF \E i \in 1..Len(labels) : labels[i][1] = field
  THEN labels[CHOOSE i \in 1..Len(labels) : labels[i][1] = field][2]
  ELSE TitleLabel(field)

\* list(rows[0].keys())
Keys(row) == [i \in 1..Len(row) |-> row[i].k]

Range(seq) == {seq[i] : i \in 1..Len(seq)}

\* the priority fields the first row has or, when it has none, its first n
\* fields that are not housekeeping fields
DisplayFields(keys, priority, housekeeping, n) ==
  LET chosen == Filter(priority, Range(keys))
  IN  IF chosen # <<>> THEN chosen
      ELSE Prefix(Filter(keys, Range(keys) \ housekeeping), n)

\* the fields of the row among `fields` whose value is truthy, in the order
\* of `fields` (row.get(field) of a column the row lacks is None)
RECURSIVE ShownFields(_, _)
ShownFields(row, fields) ==
  IF fields = <<>> THEN <<>>
  ELSE LET here == {i \in 1..Len(row) :
                      row[i].k = fields[1] /\ FieldTruthy(row[i])}
       IN  (IF here = {} THEN <<>> ELSE <<row[CHOOSE i \in here : TRUE]>>)
           \o ShownFields(row, Tail(fields))

\* f"{label}: {value}" for each shown field
RowParts(row, fields, labels) ==
  LET shown == ShownFields(row, fields)
  IN  [i \in 1..Len(shown) |->
         Label(shown[i].k, labels) \o <<":"," ">> \o shown[i].v]

\* f"{i+1}. {' | '.join(row_parts)}"
RowLine(index, parts) == Digits(index) \o <<"."," ">> \o Join(<<" ","|"," ">>, parts)

\* lines 705-708: every truthy field of the row, joined by ", "
FallbackLine(index, row, labels) ==
  Digits(index) \o <<"."," ">> \o Join(<<","," ">>, RowParts(row, Keys(row), labels))

\* the lines of the show-all branch: one per row
AllLines(rows, fields, labels) ==
  [i \in 1..Len(rows) |->
     IF RowParts(rows[i], fields, labels) # <<>>
     THEN RowLine(i, RowParts(rows[i], fields, labels))
     ELSE FallbackLine(i, rows[i], labels)]

\* the lines of the sample and the generic branch: a row without parts
\* appends nothing (lines 753-754 and 815-816)
PartLines(rows, fields, labels, index) ==
  Join(<<>>, [i \in index..Len(rows) |->
                IF RowParts(rows[i], fields, labels) # <<>>
                THEN <<RowLine(i, RowParts(rows[i], fields, labels))>>
                ELSE <<>>])

\* lines 652-711
ShowAllResponse(rows) ==
  LET fields == DisplayFields(Keys(rows[1]), priority_fields_all,
                              housekeeping_fields, FallbackFields)
  IN  <<"H","e","r","e"," ","a","r","e"," ","a","l","l"," ">> \o Digits(Len(rows)) \o <<" ","e","n","t","r","i","e","s",":","\n","\n">>
        \o Join(<<"\n">>, AllLines(rows, fields, field_labels))

\* lines 720-766
SampleResponse(rows) ==
  LET fields == DisplayFields(Keys(rows[1]), priority_fields_sample,
                              housekeeping_fields_sample, SampleFallbackFields)
      sample == Prefix(rows, sample_size)
  IN  <<"F","o","u","n","d"," ">> \o Digits(Len(rows)) \o <<" ","e","n","t","r","i","e","s"," ","i","n"," ","t","o","t","a","l",".","\n","\n">>
        \o <<"H","e","r","e"," ","a","r","e"," ","t","h","e"," ","f","i","r","s","t"," ">> \o Digits(sample_size) \o <<":","\n","\n">>
        \o Join(<<"\n">>, PartLines(sample, fields, field_labels_sample, 1))
        \o <<"\n","\n",".",".","."," ","a","n","d"," ">> \o Digits(Len(rows) - sample_size)
        \o <<" ","m","o","r","e"," ","e","n","t","r","i","e","s",".","\n","\n">>
        \o <<"W","o","u","l","d"," ","y","o","u"," ","l","i","k","e"," ","m","e"," ","t","o"," ","s","h","o","w"," ","a"," ","s","p","e","c","i","f","i","c"," ","r","a","n","g","e"," ","o","r"," ","f","i","l","t","e","r"," ","t","h","e","s","e"," ","r","e","s","u","l","t","s","?">>

\* lines 780-820
GenericResponse(rows) ==
  LET fields == DisplayFields(Keys(rows[1]), priority_fields_other,
                              housekeeping_fields, FallbackFields)
  IN  <<"H","e","r","e"," ","a","r","e"," ","t","h","e"," ","r","e","s","u","l","t","s",":","\n","\n">>
        \o Join(<<"\n">>, PartLines(rows, fields, field_labels, 1))

\* a summarizer whose list branch does not test that there are rows
compose_response_lists_first(query_type, rows) ==
  IF InList(query_type, list_types)
  THEN IF rows = <<>>
       THEN <<"H","e","r","e"," ","a","r","e"," ","a","l","l"," ","0"," ","e","n","t","r","i","e","s",":","\n","\n">>
       ELSE IF Len(rows) <= ShowAllLimit
            THEN ShowAllResponse(rows)
            ELSE SampleResponse(rows)
  ELSE IF rows # <<>>
       THEN GenericResponse(rows)
       ELSE NoResultsMessage

\* the answer text of the summarizer
compose_response(query_type, rows) ==
  IF InList(query_type, list_types) /\ rows # <<>>
  THEN IF Len(rows) <= ShowAllLimit
       THEN ShowAllResponse(rows)
       ELSE SampleResponse(rows)
  ELSE IF rows # <<>>
       THEN GenericResponse(rows)
       ELSE NoResultsMessage

\* every branch sets the response and then updates the memory
\* a summarizer that updates the memory before it has composed the answer
summarizer_node_memory_first(state) ==
  LET s0 == initialize_memory(state)
      query_type == Get(s0, "query_type", ConversationType)
      rows == Get(s0, "rows", <<>>)
      updated == {update_memory(s0)}
  IN  CHOOSE after \in {Put(s, "response", compose_response(query_type, rows)) :
                          s \in updated} : TRUE

summarizer_node(state) ==
  LET s0 == initialize_memory(state)
      query_type == Get(s0, "query_type", ConversationType)
      rows == Get(s0, "rows", <<>>)
      \* the answer is composed once, then the memory is updated from it
      answered == {Put(s0, "response", compose_response(query_type, rows))}
  IN  CHOOSE after \in {update_memory(s) : s \in answered} : TRUE

(***************************************************************************)
(* Statements as the data store reads them                                 *)
(***************************************************************************)

\* the first word of the statement, in upper case
LeadingKeyword(sql) ==
  LET text == Strip(sql)
      stops == {i \in 1..Len(text) : text[i] \notin WordChars}
      end == IF stops = {} THEN Len(text)
             ELSE (CHOOSE i \in stops : \A j \in stops : i <= j) - 1
  IN  Upper(SubSeq(text, 1, end))

\* a semicolon with a further statement after it
HasSecondStatement(sql) ==
  \E i \in 1..Len(sql) :
    sql[i] = ";" /\ \E j \in (i + 1)..Len(sql) : sql[j] \notin Whitespace

\* the statement after the last semicolon that separates two statements
LastStatement(sql) ==
  LET seps == {i \in 1..Len(sql) :
                 sql[i] = ";" /\ \E j \in (i + 1)..Len(sql) : sql[j] \notin Whitespace}
  IN  IF seps = {} THEN sql
      ELSE SubSeq(sql, (CHOOSE i \in seps : \A j \in seps : j <= i) + 1, Len(sql))

\* line 499: fetchall raises unless the last statement produced a result set
ReturnsRows(sql) == LeadingKeyword(LastStatement(sql)) = <<"S","E","L","E","C","T">>

(***************************************************************************)
(* The service (routes/chatbot.py) and the graph (state_machine.py)        *)
(***************************************************************************)

\* bounds of the model
MaxRequests == 2
MaxRows == 2
MaxPending == 2

TranscriptLimit == 20

VARIABLES
  conversation_sessions, \* chatbot.py:18, session id -> list of messages
  inbox,                 \* requests received and not yet handled
  pc,                    \* the node the graph runs next; "idle" between turns
  request,               \* the request chat_query is handling
  state,                 \* the AgentState of the turn in flight
  calls,                 \* the external calls of the turn, in order
  reply,                 \* the last response sent to a caller
  served,                \* per session, the turns answered since its creation
  sent,                  \* number of requests received so far
  clears,                \* clear requests received and not yet handled
  list_versions,         \* lists.py: the rows of table list_versions
  list_entries,          \* lists.py: the version ids the entry rows carry
  add_calls              \* lists.py: the add_items_to_list calls, by worker thread

aside == <<clears, list_versions, list_entries, add_calls>>

vars ==
  <<conversation_sessions, inbox, pc, request, state, calls, reply, served, sent,
    clears, list_versions, list_entries, add_calls>>

\* The most add_items_to_list calls a behaviour receives.
MaxAddCalls == 3

AddCalls == 1..MaxAddCalls

\* A call that has not been received yet: no local of the handler is bound.
NoCall ==
  [pc |-> "new", list_id |-> 0, items |-> 0, next_version |-> 0,
   version_id |-> 0, status |-> 0, before |-> {}, alone |-> TRUE]

\* No clear request is waiting, the list tables are empty, no call was received.
InitAside ==
  /\ clears = {}
  /\ list_versions = {}
  /\ list_entries = {}
  /\ add_calls = [c \in AddCalls |-> NoCall]

\* request.session_id as the client sends it ("" : none given)
SessionIdInputs == {"", "s1"}

\* line 67: request.session_id or "default"
SessionKey(session_id) == IF session_id = "" THEN "default" ELSE session_id

SessionKeys == {SessionKey(s) : s \in SessionIdInputs}

\* the questions clients ask
UserTexts == {<<"H","i">>, <<"s","h","o","w"," ","h","c","p">>}

\* what the completion engine answers to the classification prompt
ClassifyOutputs == {<<"l","i","s","t","_","a","l","l">>, <<" ","H","i","s","t","o","r","y","\n">>}

\* what the completion engine answers to the composition prompt
ComposeOutputs ==
  {<<"S","E","L","E","C","T"," ","*"," ","F","R","O","M"," ","h","c","p">>, <<>>, <<"D","E","L","E","T","E"," ","F","R","O","M"," ","h","c","p">>,
   <<"S","E","L","E","C","T"," ","1",";"," ","D","R","O","P"," ","T","A","B","L","E"," ","h","c","p">>}

ConnectError == <<"c","o","n","n","e","c","t","i","o","n"," ","r","e","f","u","s","e","d">>
ExecuteError == <<"s","y","n","t","a","x"," ","e","r","r","o","r">>

\* the rows the data store returns
HcpNames == <<<<"A","n","n">>, <<"B","o">>>>

HcpRow(i) ==
  <<StrField(<<"h","c","p","_","n","a","m","e">>, HcpNames[((i - 1) % Len(HcpNames)) + 1]),
    IntField(<<"t","i","e","r">>, i % 3)>>

HcpRows(n) == [i \in 1..n |-> HcpRow(i)]

NoRequest == [session_id |-> "", question |-> <<>>]
NoReply == [status |-> 0]

Init ==
  /\ conversation_sessions = EmptyDict
  /\ inbox = {}
  /\ pc = "idle"
  /\ request = NoRequest
  /\ state = EmptyDict
  /\ calls = <<>>
  /\ reply = NoReply
  /\ served = [k \in SessionKeys |-> <<>>]
  /\ sent = 0
  /\ InitAside

\* a client posts /chatbot/query
Submit(session_id, question) ==
  /\ sent < MaxRequests
  /\ Cardinality(inbox) < MaxPending
  /\ [session_id |-> session_id, question |-> question] \notin inbox
  /\ inbox' = inbox \cup {[session_id |-> session_id, question |-> question]}
  /\ sent' = sent + 1
  /\ UNCHANGED <<conversation_sessions, pc, request, state, calls, reply, served>>
  /\ UNCHANGED aside

\* lines 74-90
initial_state(question, conversation_history) ==
  [user_query |-> question,
   conversation_history |-> conversation_history,
   session_context |-> NewSessionContext,
   needs_sql |-> FALSE,
   is_clarification |-> FALSE]

\* a handler that records the user's message before it invokes the graph
chat_query_begin_recording_question ==
  /\ pc = "idle"
  /\ \E r \in inbox :
       LET key == SessionKey(r.session_id)
           sessions == IF Has(conversation_sessions, key)
                       THEN conversation_sessions
                       ELSE Put(conversation_sessions, key, <<>>)
           asked == [role |-> "user", content |-> r.question, query_type |-> None]
       IN  /\ inbox' = inbox \ {r}
           /\ request' = [session_id |-> key, question |-> r.question,
                          overlap |-> \E o \in inbox \ {r} :
                                         SessionKey(o.session_id) = key]
           /\ conversation_sessions' = [sessions EXCEPT ![key] = Append(@, asked)]
           /\ state' = initial_state(r.question, Append(sessions[key], asked))
  /\ calls' = <<>>
  /\ pc' = "ROUTER"
  /\ UNCHANGED <<reply, served, sent>>
  /\ UNCHANGED aside

\* a handler that builds a new registry for a key it has not seen
chat_query_begin_fresh_registry ==
  /\ pc = "idle"
  /\ \E r \in inbox :
       LET key == SessionKey(r.session_id)
           sessions == IF Has(conversation_sessions, key)
                       THEN conversation_sessions
                       ELSE Put(EmptyDict, key, <<>>)
       IN  /\ inbox' = inbox \ {r}
           /\ request' = [session_id |-> key, question |-> r.question,
                          overlap |-> \E o \in inbox \ {r} :
                                         SessionKey(o.session_id) = key]
           /\ conversation_sessions' = sessions
           /\ state' = initial_state(r.question, sessions[key])
  /\ calls' = <<>>
  /\ pc' = "ROUTER"
  /\ UNCHANGED <<reply, served, sent>>
  /\ UNCHANGED aside

\* chat_query, lines 65-93: the session is created on first use and the
\* graph is invoked on a state that holds no session_memory.  The handler
\* is a coroutine without an await: the event loop runs it to its end
\* before it starts another handler (pc = "idle")
chat_query_begin ==
  /\ pc = "idle"
  /\ \E r \in inbox :
       LET key == SessionKey(r.session_id)
           sessions == IF Has(conversation_sessions, key)
                       THEN conversation_sessions
                       ELSE Put(conversation_sessions, key, <<>>)
       IN  /\ inbox' = inbox \ {r}
           /\ request' = [session_id |-> key, question |-> r.question,
                          overlap |-> \E o \in inbox \ {r} :
                                         SessionKey(o.session_id) = key]
           /\ conversation_sessions' = sessions
           /\ state' = initial_state(r.question, sessions[key])
  /\ calls' = <<>>
  /\ pc' = "ROUTER"
  /\ UNCHANGED <<reply, served, sent>>
  /\ UNCHANGED aside

\* a graph whose edge out of ROUTER skips CLASSIFY
RouterSkippingClassify ==
  /\ pc = "ROUTER"
  /\ state' = router_node(state)
  /\ pc' = (IF Get(state', "needs_sql", FALSE) THEN "GENERATE_SQL" ELSE "SUMMARIZE")
  /\ UNCHANGED <<conversation_sessions, inbox, request, calls, reply, served, sent>>
  /\ UNCHANGED aside

\* START -> ROUTER -> CLASSIFY
Router ==
  /\ pc = "ROUTER"
  /\ state' = router_node(state)
  /\ pc' = "CLASSIFY"
  /\ UNCHANGED <<conversation_sessions, inbox, request, calls, reply, served, sent>>
  /\ UNCHANGED aside

\* chat_query, lines 124-127: an exception of the graph becomes HTTP 500
Raise500 ==
  /\ reply' = [status |-> 500]
  /\ pc' = "idle"
  /\ state' = EmptyDict
  /\ request' = NoRequest

\* a graph whose edge out of CLASSIFY always takes the SQL path
should_execute_sql_always(s) == "GENERATE_SQL"

\* should_execute_sql (state_machine.py, lines 32-42)
should_execute_sql(s) ==
  IF Get(s, "needs_sql", FALSE) THEN "GENERATE_SQL" ELSE "SUMMARIZE"

\* one call of the completion engine: the prompt and either the text it
\* answered or the exception it raised
LlmCall(prompt, outcome, result) ==
  [svc |-> "llm", op |-> prompt.kind, arg |-> prompt, outcome |-> outcome,
   result |-> result]

\* CLASSIFY: skipped for a conversation turn; else one completion call,
\* whose exception nothing in the node catches
Classify ==
  /\ pc = "CLASSIFY"
  /\ \/ /\ ~Get(state, "needs_sql", FALSE)
        /\ state' = classify_skip(state)
        /\ pc' = should_execute_sql(state')
        /\ UNCHANGED <<calls, reply, request>>
     \/ /\ Get(state, "needs_sql", FALSE)
        /\ \E content \in ClassifyOutputs :
             /\ state' = classify_query_node(state, content)
             /\ calls' = Append(calls, LlmCall(ClassifyPrompt(state), "ok", content))
        /\ pc' = should_execute_sql(state')
        /\ UNCHANGED <<reply, request>>
     \/ /\ Get(state, "needs_sql", FALSE)
        /\ calls' = Append(calls, LlmCall(ClassifyPrompt(state), "error", <<>>))
        /\ Raise500
  /\ UNCHANGED <<conversation_sessions, inbox, served, sent>>
  /\ UNCHANGED aside

\* GENERATE_SQL: one completion call, whose exception nothing in the node
\* catches
GenerateSql ==
  /\ pc = "GENERATE_SQL"
  /\ \/ /\ ~Get(state, "needs_sql", FALSE)
        /\ state' = generate_sql_skip(state)
        /\ pc' = "EXECUTE_SQL"
        /\ UNCHANGED <<calls, reply, request>>
     \/ /\ Get(state, "needs_sql", FALSE)
        /\ \E content \in ComposeOutputs :
             /\ state' = generate_sql_node(state, content)
             /\ calls' = Append(calls, LlmCall(ComposerContext(state), "ok", content))
        /\ pc' = "EXECUTE_SQL"
        /\ UNCHANGED <<reply, request>>
     \/ /\ Get(state, "needs_sql", FALSE)
        /\ calls' = Append(calls, LlmCall(ComposerContext(state), "error", <<>>))
        /\ Raise500
  /\ UNCHANGED <<conversation_sessions, inbox, served, sent>>
  /\ UNCHANGED aside

\* one call of the data store (psycopg2): connect, execute (with fetchall)
\* or close, and the text of the exception it raised, if any
DbCall(op, arg, outcome, result) ==
  [svc |-> "db", op |-> op, arg |-> arg, outcome |-> outcome, result |-> result]

\* an executor whose except branch returns without closing the connection
ExecuteSqlLeakingOnError ==
  /\ pc = "EXECUTE_SQL"
  /\ \/ /\ execute_skips(state)
        /\ state' = execute_sql_skip(state)
        /\ UNCHANGED calls
     \/ /\ ~execute_skips(state)
        /\ state' = execute_sql_error(state, ConnectError)
        /\ calls' = Append(calls, DbCall("connect", <<>>, "error", ConnectError))
     \/ /\ ~execute_skips(state)
        /\ state' = execute_sql_error(state, ExecuteError)
        /\ calls' = calls \o <<DbCall("connect", <<>>, "ok", <<>>),
                               DbCall("execute", state.generated_sql, "error", ExecuteError)>>
     \/ /\ ~execute_skips(state)
        /\ ReturnsRows(state.generated_sql)
        /\ \E n \in 0..MaxRows :
             state' = execute_sql_ok(state, HcpRows(n))
        /\ calls' = calls \o <<DbCall("connect", <<>>, "ok", <<>>),
                               DbCall("execute", state.generated_sql, "ok", <<>>),
                               DbCall("close", <<>>, "ok", <<>>)>>
  /\ pc' = "SUMMARIZE"
  /\ UNCHANGED <<conversation_sessions, inbox, request, reply, served, sent>>
  /\ UNCHANGED aside

\* EXECUTE_SQL: connect, execute and fetch, close; every exception is caught
ExecuteSql ==
  /\ pc = "EXECUTE_SQL"
  /\ \/ /\ execute_skips(state)
        /\ state' = execute_sql_skip(state)
        /\ UNCHANGED calls
     \/ /\ ~execute_skips(state)
        /\ state' = execute_sql_error(state, ConnectError)
        /\ calls' = Append(calls, DbCall("connect", <<>>, "error", ConnectError))
     \/ /\ ~execute_skips(state)
        /\ state' = execute_sql_error(state, ExecuteError)
        /\ calls' = calls \o <<DbCall("connect", <<>>, "ok", <<>>),
                               DbCall("execute", state.generated_sql, "error", ExecuteError),
                               DbCall("close", <<>>, "ok", <<>>)>>
     \/ /\ ~execute_skips(state)
        /\ ReturnsRows(state.generated_sql)
        /\ \E n \in 0..MaxRows :
             state' = execute_sql_ok(state, HcpRows(n))
        /\ calls' = calls \o <<DbCall("connect", <<>>, "ok", <<>>),
                               DbCall("execute", state.generated_sql, "ok", <<>>),
                               DbCall("close", <<>>, "ok", <<>>)>>
  /\ pc' = "SUMMARIZE"
  /\ UNCHANGED <<conversation_sessions, inbox, request, reply, served, sent>>
  /\ UNCHANGED aside

\* SUMMARIZE -> END
Summarize ==
  /\ pc = "SUMMARIZE"
  /\ state' = summarizer_node(state)
  /\ pc' = "RESPOND"
  /\ UNCHANGED <<conversation_sessions, inbox, request, calls, reply, served, sent>>
  /\ UNCHANGED aside

Message(role, content, query_type) ==
  [role |-> role, content |-> content, query_type |-> query_type]

\* a trim that keeps the oldest messages (conversation_history[:20])
TrimTranscriptKeepsOldest(history) ==
  IF Len(history) > TranscriptLimit THEN Prefix(history, TranscriptLimit) ELSE history

\* lines 110-114
TrimTranscript(history) ==
  IF Len(history) > TranscriptLimit THEN Suffix(history, TranscriptLimit) ELSE history

\* what the turn leaves behind for the observer: its question, its query,
\* its row count and the session_memory of its final state
ServedTurn(final_state, overlap) ==
  [query |-> final_state.user_query,
   sql |-> Get(final_state, "generated_sql", None),
   row_count |-> Len(Get(final_state, "rows", <<>>)),
   turn_count |-> final_state.session_memory.turn_count,
   history |-> final_state.session_memory.query_history,
   result_cache |-> final_state.session_memory.result_cache,
   entity_references |-> final_state.session_memory.entity_references,
   conversation_context |-> final_state.session_memory.conversation_context,
   mentioned_tables |-> final_state.session_context.mentioned_tables,
   overlap |-> overlap]

\* chat_query, lines 95-122: the two messages are appended to the session's
\* list, the list is cut to its last 20 messages and the answer is returned
Respond ==
  /\ pc = "RESPOND"
  /\ LET key == request.session_id
         response_text == Get(state, "response", <<"S","o","r","r","y",","," ","I"," ","c","o","u","l","d","n","'","t"," ","g","e","n","e","r","a","t","e"," ","a"," ","r","e","s","p","o","n","s","e",".">>)
         query_type == Get(state, "query_type", None)
         history == state.conversation_history
                      \o <<Message("user", request.question, query_type),
                           Message("assistant", response_text, query_type)>>
     IN  /\ conversation_sessions' =
              Put(conversation_sessions, key, TrimTranscript(history))
         /\ reply' = [status |-> 200,
                      answer |-> response_text,
                      generated_sql |-> Get(state, "generated_sql", None),
                      row_count |-> Len(Get(state, "rows", <<>>)),
                      query_type |-> query_type]
         /\ served' = [served EXCEPT ![key] =
                         Append(@, ServedTurn(state, request.overlap))]
  /\ pc' = "idle"
  /\ state' = EmptyDict
  /\ request' = NoRequest
  /\ UNCHANGED <<inbox, calls, sent>>
  /\ UNCHANGED aside

\* a clear that empties the whole registry
clear_every_session(session_id) ==
  /\ pc = "idle"
  /\ conversation_sessions' = EmptyDict
  /\ reply' = [status |-> 200, message |-> session_id]
  /\ served' = [k \in SessionKeys |-> <<>>]
  /\ UNCHANGED <<inbox, pc, request, state, calls, sent>>
  /\ UNCHANGED aside

\* clear_session, lines 130-135
clear_session(session_id) ==
  /\ pc = "idle"
  /\ conversation_sessions' =
       IF Has(conversation_sessions, session_id)
       THEN [k \in DOMAIN conversation_sessions \ {session_id} |->
               conversation_sessions[k]]
       ELSE conversation_sessions
  /\ reply' = [status |-> 200, message |-> session_id]
  /\ served' = [served EXCEPT ![session_id] = <<>>]
  /\ UNCHANGED <<inbox, pc, request, state, calls, sent>>
  /\ UNCHANGED aside

\* a health check that also empties the registry
health_check_resetting ==
  /\ pc = "idle"
  /\ reply' = [status |-> 200,
               active_sessions |-> Cardinality(DOMAIN conversation_sessions)]
  /\ conversation_sessions' = EmptyDict
  /\ UNCHANGED <<inbox, pc, request, state, calls, served, sent>>
  /\ UNCHANGED aside

\* health_check, lines 138-145 (the timestamp is left out)
health_check ==
  /\ pc = "idle"
  /\ reply' = [status |-> 200,
               active_sessions |-> Cardinality(DOMAIN conversation_sessions)]
  /\ UNCHANGED <<conversation_sessions, inbox, pc, request, state, calls, served, sent>>
  /\ UNCHANGED aside

Next ==
  \/ \E s \in SessionIdInputs, q \in UserTexts : Submit(s, q)
  \/ chat_query_begin
  \/ Router
  \/ Classify
  \/ GenerateSql
  \/ ExecuteSql
  \/ Summarize
  \/ Respond
  \/ \E k \in SessionKeys : clear_session(k)
  \/ health_check

Spec == Init /\ [][Next]_vars

(***************************************************************************)
(* Properties of the service                                               *)
(***************************************************************************)

Last(seq) == seq[Len(seq)]

\* the calls of one kind among the calls of the turn
CallsOf(log, svc, op) ==
  {i \in 1..Len(log) : log[i].svc = svc /\ log[i].op = op}

\* C1: for every session key, after N turns have been processed the
\* session's turnCount equals N (the i-th processed turn of a session ends
\* with turn_count = i)
C1_TurnCountEqualsProcessedTurns ==
  \A k \in SessionKeys :
    \A i \in 1..Len(served[k]) : served[k][i].turn_count = i

\* the previous turn of the session generated a query that returned rows
\* from a table
PreviousTurnHadRows(key) ==
  /\ served[key] # <<>>
  /\ Truthy(Last(served[key]).sql)
  /\ Last(served[key]).row_count > 0
  /\ FromTable(Last(served[key]).sql) # None

\* C2: when the previous turn of the session generated a query that
\* returned rows from table T, the context the composer builds in this turn
\* has T as the last table and the previous turn's text and query as the
\* most recent query
C2_ContextCarriesPreviousTurn ==
  (pc \in {"EXECUTE_SQL", "SUMMARIZE", "RESPOND"}
     /\ PreviousTurnHadRows(request.session_id))
  => \A i \in CallsOf(calls, "llm", "compose") :
       /\ calls[i].arg.last_table = FromTable(Last(served[request.session_id]).sql)
       /\ calls[i].arg.most_recent.asked = Last(served[request.session_id]).query
       /\ calls[i].arg.most_recent.sql = Last(served[request.session_id]).sql

\* C3: the turn never raises to its caller: every answer to a query is a
\* well-formed answer text, whatever the outcome of the external calls
C3_TurnNeverRaises ==
  /\ reply.status # 500
  /\ (Has(reply, "answer") => Truthy(reply.answer))

SingleSelect(sql) ==
  LeadingKeyword(sql) = <<"S","E","L","E","C","T">> /\ ~HasSecondStatement(sql)

\* C4: a generated query with a second statement or a leading keyword
\* other than SELECT is never handed to the data store's execute, and the
\* turn goes on with zero rows
C4_OnlySingleSelectDispatched ==
  /\ \A i \in CallsOf(calls, "db", "execute") : SingleSelect(calls[i].arg)
  /\ (pc \in {"SUMMARIZE", "RESPOND"} /\ Truthy(Get(state, "generated_sql", None))
        /\ ~SingleSelect(state.generated_sql))
     => Get(state, "rows", <<>>) = <<>>

\* C6: two concurrent turns on one session key (the second was waiting
\* when the first began) leave a history without missing or duplicated
\* turn numbers: the history of the later one holds turns 1..N
C6_ConcurrentTurnsKeepTurnNumbers ==
  \A k \in SessionKeys :
    (\E i \in 1..Len(served[k]) : i < Len(served[k]) /\ served[k][i].overlap)
    => LET history == Last(served[k]).history
       IN  [i \in 1..Len(history) |-> history[i].turn]
             = [i \in 1..Len(served[k]) |-> i]

\* C7: when the completion engine fails during classification the turn is
\* not aborted: a category is set and the pipeline goes on to composition
C7_ClassifyFailureContinues ==
  [][(pc = "CLASSIFY" /\ calls' # calls /\ Last(calls').outcome = "error")
       => (pc' = "GENERATE_SQL" /\ Has(state', "query_type"))]_vars

\* the composition call of the turn failed or answered nothing
ComposeFailedOrEmpty(log) ==
  \E i \in CallsOf(log, "llm", "compose") :
    log[i].outcome = "error" \/ Strip(log[i].result) = <<>>

\* C8: when the completion engine fails or answers nothing during
\* composition, the turn is not aborted, no query is generated, the data
\* store is not called and the answer is the no-results message
C8_ComposeFailureGivesNoResults ==
  [][ComposeFailedOrEmpty(calls')
       => /\ ~(pc = "GENERATE_SQL" /\ pc' = "idle")
          /\ (pc = "GENERATE_SQL" /\ pc' = "EXECUTE_SQL"
                => ~Truthy(state'.generated_sql))
          /\ \A i \in 1..Len(calls') : calls'[i].svc # "db"
          /\ (pc = "RESPOND" /\ pc' = "idle"
                => reply'.status = 200 /\ reply'.answer = NoResultsMessage)]_vars

\* the failed data-store calls of the turn
DbFailures(log) ==
  {i \in 1..Len(log) : log[i].svc = "db" /\ log[i].outcome = "error"}

\* the reason of the (only) failed data-store call
DbFailureReason(log) == log[CHOOSE i \in DbFailures(log) : TRUE].result

\* C9: when the connection or the execution fails the turn still completes:
\* the rows are empty and the reason is recorded in last_results_summary;
\* the memory update runs (turn_count + 1, a record with row_count 0
\* appended, nothing cached); the answer is the no-results message, without
\* the text of the error
C9_ExecutionFailureIsNotFatal ==
  [][DbFailures(calls') # {}
       => /\ (pc = "EXECUTE_SQL"
                => /\ pc' = "SUMMARIZE"
                   /\ state'.rows = <<>>
                   /\ state'.session_context.last_results_summary
                        = <<"E","r","r","o","r",":"," ">> \o DbFailureReason(calls'))
          /\ (pc = "SUMMARIZE" /\ pc' # pc
                => /\ pc' = "RESPOND"
                   /\ state'.response = NoResultsMessage
                   /\ state'.session_context.last_results_summary
                        = <<"E","r","r","o","r",":"," ">> \o DbFailureReason(calls')
                   /\ state'.session_memory.turn_count
                        = state.session_memory.turn_count + 1
                   /\ Len(state'.session_memory.query_history)
                        = Len(state.session_memory.query_history) + 1
                   /\ Last(state'.session_memory.query_history).row_count = 0
                   /\ Last(state'.session_memory.query_history).turn
                        = state'.session_memory.turn_count
                   /\ state'.session_memory.result_cache
                        = state.session_memory.result_cache)
          /\ (pc = "RESPOND" /\ pc' # pc
                => /\ pc' = "idle"
                   /\ reply'.status = 200
                   /\ reply'.answer = NoResultsMessage
                   /\ ~Contains(DbFailureReason(calls'), reply'.answer)
                   /\ reply'.row_count = 0)]_vars

\* a turn whose data-store call failed has been answered
C9_Witness ==
  /\ pc = "idle"
  /\ DbFailures(calls) # {}
  /\ reply.status = 200
  /\ Has(reply, "answer")

(***************************************************************************)
(* update_memory over many turns: the node functions on a state that       *)
(* carries the session_memory and session_context of the turn before       *)
(* (initialize_memory keeps a memory the state already holds)              *)
(***************************************************************************)

MaxMemoryTurns == 12

\* the turns fed to the memory: question, category, query, rows
MemoryTurns ==
  {[user_query |-> <<"h","i">>, query_type |-> ConversationType,
    generated_sql |-> None, rows |-> <<>>],
   [user_query |-> <<"s","h","o","w"," ","h","c","p">>, query_type |-> <<"l","i","s","t","_","a","l","l">>,
    generated_sql |-> <<"S","E","L","E","C","T"," ","*"," ","F","R","O","M"," ","h","c","p">>, rows |-> HcpRows(1)]}

InitMemory ==
  /\ conversation_sessions = EmptyDict
  /\ inbox = {}
  /\ pc = "SUMMARIZE"
  /\ request = NoRequest
  /\ state = initialize_memory([session_context |-> NewSessionContext])
  /\ calls = <<>>
  /\ reply = NoReply
  /\ served = [k \in SessionKeys |-> <<>>]
  /\ sent = 0
  /\ InitAside

\* the summarizer on the state of one more turn
MemoryTurn ==
  /\ pc = "SUMMARIZE"
  /\ state.session_memory.turn_count < MaxMemoryTurns
  /\ \E t \in MemoryTurns :
       state' = summarizer_node(
                  [user_query |-> t.user_query,
                   query_type |-> t.query_type,
                   generated_sql |-> t.generated_sql,
                   rows |-> t.rows,
                   needs_sql |-> t.generated_sql # None,
                   is_clarification |-> FALSE,
                   session_context |-> state.session_context,
                   session_memory |-> state.session_memory])
  /\ UNCHANGED <<conversation_sessions, inbox, pc, request, calls, reply, served, sent>>
  /\ UNCHANGED aside

SpecMemory == InitMemory /\ [][MemoryTurn]_vars

\* C5: after any number of memory updates the history holds at most 10
\* records and is exactly the most recent min(10, turnCount) records in
\* turn order (the oldest is the one evicted)
C5_HistoryIsTheLastTenTurns ==
  LET memory == state.session_memory
      history == memory.query_history
      kept == IF memory.turn_count < 10 THEN memory.turn_count ELSE 10
  IN  /\ Len(history) = kept
      /\ Len(history) <= 10
      /\ \A i \in 1..Len(history) :
           history[i].turn = memory.turn_count - kept + i

\* two records have been evicted, the two oldest
C5_Witness ==
  /\ state.session_memory.turn_count = 12
  /\ Len(state.session_memory.query_history) = 10
  /\ state.session_memory.query_history[1].turn = 3

(***************************************************************************)
(* router_node as a function of the user text and the entity index         *)
(***************************************************************************)

RouterTexts ==
  {<<"h","i">>, <<" "," ","T","h","a","n","k"," ","Y","o","u","\n">>, <<"H","E","L","L","O">>, <<"h","i"," ","t","h","e","r","e">>, <<"t","h","a","n","k","s"," ","a"," ","l","o","t">>,
   <<"W","h","a","t"," ","c","a","n"," ","y","o","u"," ","d","o","?">>, <<"h","e","l","p"," ","m","e"," ","w","i","t","h"," ","t","a","b","l","e","_","h","c","p">>,
   <<"h","o","w"," ","d","o"," ","y","o","u"," ","w","o","r","k",","," ","n","a","m","e","_","a","n","n","?">>, <<"s","h","o","w"," ","h","c","p">>, <<"t","e","l","l"," ","m","e"," ","a","b","o","u","t"," ","n","a","m","e","_","b","o">>,
   <<"l","i","s","t","_","v","e","r","s","i","o","n","s"," ","f","o","r"," ","A","n","n">>, <<>>}

\* entity indexes a memory can hold: keys of extract_entities
RouterEntities ==
  {<<>>, <<<<"t","a","b","l","e","_","h","c","p">>>>, <<<<"n","a","m","e","_","A","n","n">>>>, <<<<"n","a","m","e","_","B","o">>>>,
   <<<<"t","a","b","l","e","_","h","c","p">>, <<"n","a","m","e","_","A","n","n">>>>, <<<<"t","a","b","l","e","_","h","c","p">>, <<"n","a","m","e","_","A","n","n">>, <<"n","a","m","e","_","B","o">>>>}

InitRouter ==
  /\ conversation_sessions = EmptyDict
  /\ inbox = {}
  /\ pc = "ROUTER"
  /\ request = NoRequest
  /\ \E q \in RouterTexts, e \in RouterEntities :
       state = [user_query |-> q,
                session_context |-> NewSessionContext,
                session_memory |-> [NewMemory EXCEPT !.entity_references = e]]
  /\ calls = <<>>
  /\ reply = NoReply
  /\ served = [k \in SessionKeys |-> <<>>]
  /\ sent = 0
  /\ InitAside

SpecRouter == InitRouter /\ [][Router]_vars

\* the trimmed, lower-cased text equals a pure-greeting phrase
IsGreetingText(text) ==
  \E i \in 1..Len(pure_greetings) : Strip(Lower(text)) = pure_greetings[i]

\* the trimmed, lower-cased text contains a meta-question phrase
IsMetaText(text) ==
  \E i \in 1..Len(meta_questions) :
    Contains(meta_questions[i], Strip(Lower(text)))

\* C10: the router sets needs_sql = false exactly when the trimmed,
\* lower-cased user text equals a pure-greeting phrase or contains a
\* meta-question phrase, whatever the entity index holds
C10_NeedsDataIffNotGreetingOrMeta ==
  (pc = "CLASSIFY" /\ Has(state, "needs_sql"))
  => (state.needs_sql = FALSE
        <=> (IsGreetingText(state.user_query) \/ IsMetaText(state.user_query)))

\* a meta question that names an entity of the index has been routed
C10_Witness ==
  /\ pc = "CLASSIFY"
  /\ state.needs_sql = FALSE
  /\ has_entity_reference(state.session_memory, Lower(state.user_query))

\* C11: on a pure-greeting turn needs_sql is false, no query is generated
\* or executed (the turn makes no external call and never enters
\* GENERATE_SQL or EXECUTE_SQL) and the memory update of the turn leaves
\* result_cache as it was before the update
C11_GreetingLeavesCacheAlone ==
  [][/\ (pc' \in {"GENERATE_SQL", "EXECUTE_SQL"}
           => ~IsGreetingText(state'.user_query))
     /\ (pc = "SUMMARIZE" /\ pc' = "RESPOND" /\ IsGreetingText(state.user_query))
          => /\ state.needs_sql = FALSE
             /\ calls' = <<>>
             /\ ~Truthy(Get(state', "generated_sql", None))
             /\ state'.session_memory.turn_count = state.session_memory.turn_count + 1
             /\ state'.session_memory.result_cache = state.session_memory.result_cache]_vars

\* a greeting has gone through the whole graph and its memory update
C11_Witness ==
  /\ pc = "RESPOND"
  /\ IsGreetingText(state.user_query)
  /\ state.session_memory.turn_count = 1
  /\ Len(state.session_memory.query_history) = 1
  /\ state.response = NoResultsMessage

\* C12: on a turn where needs_sql is false the category is "conversation"
\* and neither the completion engine nor the data store is called; the
\* graph enters GENERATE_SQL and EXECUTE_SQL only on turns where needs_sql
\* is true
C12_ConversationTurnCallsNothing ==
  /\ pc \in {"GENERATE_SQL", "EXECUTE_SQL"} => state.needs_sql = TRUE
  /\ (pc \in {"GENERATE_SQL", "EXECUTE_SQL", "SUMMARIZE", "RESPOND"}
        /\ calls # <<>>) => state.needs_sql = TRUE
  /\ (pc \in {"SUMMARIZE", "RESPOND"} /\ state.needs_sql = FALSE)
       => /\ state.query_type = ConversationType
          /\ calls = <<>>
          /\ ~Has(state, "generated_sql")

\* a conversation turn has left CLASSIFY for SUMMARIZE
C12_Witness ==
  /\ pc = "SUMMARIZE"
  /\ state.needs_sql = FALSE
  /\ state.query_type = ConversationType
  /\ calls = <<>>

(***************************************************************************)
(* The end of a turn on every result the graph can hand to SUMMARIZE: the  *)
(* state is built by router_node, classify_query_node, generate_sql_node   *)
(* and execute_sql_node from a question, a category, a query and the       *)
(* outcome of the data store, with row counts around the limits of the     *)
(* summarizer and of the cache                                             *)
(***************************************************************************)

MaxRenderRows == 102

\* row counts at and around sample_size, CacheRows and ShowAllLimit
RenderCounts == {0, 1, 2, 19, 20, 21, 50, 51, 100, 101, MaxRenderRows}

\* what the classifier can pass on: categories the classification prompt
\* names (two of the other four), a category it does not name, and a reply
\* that is no category at all
RenderCategories ==
  {<<"l","i","s","t","_","a","l","l">>, <<"a","d","_","h","o","c","_","s","e","l","e","c","t">>, <<"h","i","s","t","o","r","y">>, <<"c","u","r","r","e","n","t","_","s","t","a","t","e">>,
   <<"s","u","m","m","a","r","y">>, <<"I"," ","t","h","i","n","k",":"," ","l","i","s","t","_","a","l","l",".">>}

\* a plain table, a quoted table, a table with its schema, and no query
RenderQueries ==
  {<<"S","E","L","E","C","T"," ","*"," ","F","R","O","M"," ","h","c","p">>,
   <<"S","E","L","E","C","T"," ","*"," ","F","R","O","M"," ","\"","h","c","p","\"">>,
   <<"S","E","L","E","C","T"," ","*"," ","F","R","O","M"," ","p","u","b","l","i","c",".","h","c","p">>,
   <<>>}

\* rows of SELECT specialty FROM hcp: every third specialty is NULL
SpecialtyRow(i) ==
  IF i % 3 = 0 THEN <<NullField(<<"s","p","e","c","i","a","l","t","y">>)>>
  ELSE <<StrField(<<"s","p","e","c","i","a","l","t","y">>, <<"C","a","r","d","i","o","l","o","g","y">>)>>

SpecialtyRows(n) == [i \in 1..n |-> SpecialtyRow(i)]

RenderRows == {HcpRows(n) : n \in RenderCounts} \cup {SpecialtyRows(n) : n \in RenderCounts}

\* the state and the call log the graph hands to SUMMARIZE
RenderStates ==
  LET routed(q) == router_node(initial_state(q, <<>>))
      classified(q, c) == classify_query_node(routed(q), c)
      composed(q, c, sql) == generate_sql_node(classified(q, c), sql)
      llm(q, c, sql) ==
        <<LlmCall(ClassifyPrompt(routed(q)), "ok", c),
          LlmCall(ComposerContext(classified(q, c)), "ok", sql)>>
      dispatched(sql, outcome, result) ==
        <<DbCall("connect", <<>>, "ok", <<>>),
          DbCall("execute", sql, outcome, result),
          DbCall("close", <<>>, "ok", <<>>)>>
  IN  {[question |-> q, state |-> classify_skip(routed(q)), calls |-> <<>>] :
         q \in {q \in UserTexts : ~routed(q).needs_sql}}
      \cup
      {[question |-> q, state |-> execute_sql_skip(composed(q, c, <<>>)),
        calls |-> llm(q, c, <<>>)] :
         q \in {q \in UserTexts : routed(q).needs_sql}, c \in RenderCategories}
      \cup
      {[question |-> q,
        state |-> execute_sql_error(composed(q, c, sql), ExecuteError),
        calls |-> llm(q, c, sql) \o dispatched(sql, "error", ExecuteError)] :
         q \in {q \in UserTexts : routed(q).needs_sql}, c \in RenderCategories,
         sql \in RenderQueries \ {<<>>}}
      \cup
      {[question |-> q,
        state |-> execute_sql_ok(composed(q, c, sql), rows),
        calls |-> llm(q, c, sql) \o dispatched(sql, "ok", <<>>)] :
         q \in {q \in UserTexts : routed(q).needs_sql}, c \in RenderCategories,
         sql \in RenderQueries \ {<<>>}, rows \in RenderRows}

InitRender ==
  /\ conversation_sessions = Put(EmptyDict, "s1", <<>>)
  /\ inbox = {}
  /\ pc = "SUMMARIZE"
  /\ \E r \in RenderStates :
       /\ request = [session_id |-> "s1", question |-> r.question, overlap |-> FALSE]
       /\ state = r.state
       /\ calls = r.calls
  /\ reply = NoReply
  /\ served = [k \in SessionKeys |-> <<>>]
  /\ sent = 1
  /\ InitAside

NextRender ==
  \/ Summarize
  \/ Respond

SpecRender == InitRender /\ [][NextRender]_vars

\* C13: whenever a turn ends with zero rows (no query, a query returning
\* nothing or a failed execution), whatever its category, the answer is
\* "No results found for your query." verbatim
C13_ZeroRowsGiveNoResultsMessage ==
  /\ (pc = "RESPOND" /\ Get(state, "rows", <<>>) = <<>>)
       => state.response = NoResultsMessage
  /\ (reply.status = 200 /\ Has(reply, "answer") /\ reply.row_count = 0)
       => reply.answer = NoResultsMessage

\* a list_all turn whose execution failed has been answered
C13_Witness ==
  /\ reply.status = 200
  /\ Has(reply, "answer")
  /\ reply.query_type = <<"l","i","s","t","_","a","l","l">>
  /\ reply.row_count = 0
  /\ Truthy(reply.generated_sql)
  /\ reply.answer = NoResultsMessage
  /\ \E i \in 1..Len(calls) : calls[i].svc = "db" /\ calls[i].outcome = "error"

\* the positions where a line of the text starts
LineStarts(text) ==
  {1} \cup {i + 1 : i \in {j \in 1..Len(text) : text[j] = "\n"}}

\* the lines of the answer that render a row: "<index>. ..."
RenderedRows(text) ==
  {s \in LineStarts(text) :
     \E d \in 1..3 :
       /\ s + d + 1 <= Len(text)
       /\ \A j \in s..(s + d - 1) : InList(text[j], DigitChars)
       /\ text[s + d] = "."
       /\ text[s + d + 1] = " "}

MoreEntries == <<" ","m","o","r","e"," ","e","n","t","r","i","e","s",".">>

\* C14: for list_all or ad_hoc_select with n > 0 rows, n <= 100 renders
\* exactly n rows and no truncation notice; n > 100 renders exactly 20 rows
\* and a notice that states n as the total and n - 20 as the remaining count
C14_AllUpTo100ElseFirst20 ==
  (/\ pc = "RESPOND"
   /\ InList(state.query_type, list_types)
   /\ Get(state, "rows", <<>>) # <<>>)
  => LET n == Len(state.rows)
         text == state.response
     IN  IF n <= 100
         THEN /\ Cardinality(RenderedRows(text)) = n
              /\ ~Contains(MoreEntries, text)
         ELSE /\ Cardinality(RenderedRows(text)) = 20
              /\ Contains(<<"F","o","u","n","d"," ">> \o Digits(n) \o <<" ","e","n","t","r","i","e","s"," ","i","n"," ","t","o","t","a","l",".">>, text)
              /\ Contains(<<".",".","."," ","a","n","d"," ">> \o Digits(n - 20) \o MoreEntries, text)

\* the same for rows whose first 20 all have a value to show
C14_FullRowsOnly ==
  (/\ pc = "RESPOND"
   /\ InList(state.query_type, list_types)
   /\ Get(state, "rows", <<>>) # <<>>
   /\ \A i \in 1..Len(state.rows) :
        \E j \in 1..Len(state.rows[i]) : FieldTruthy(state.rows[i][j]))
  => LET n == Len(state.rows)
         text == state.response
     IN  IF n <= 100
         THEN /\ Cardinality(RenderedRows(text)) = n
              /\ ~Contains(MoreEntries, text)
         ELSE /\ Cardinality(RenderedRows(text)) = 20
              /\ Contains(<<"F","o","u","n","d"," ">> \o Digits(n) \o <<" ","e","n","t","r","i","e","s"," ","i","n"," ","t","o","t","a","l",".">>, text)
              /\ Contains(<<".",".","."," ","a","n","d"," ">> \o Digits(n - 20) \o MoreEntries, text)

(***************************************************************************)
(* One client of session "s1" that asks its next question when the answer  *)
(* to the one before has arrived                                           *)
(***************************************************************************)

MaxSessionTurns == 3

\* the client posts /chatbot/query with session_id "s1"
SubmitNext(question) ==
  /\ pc = "idle"
  /\ inbox = {}
  /\ sent < MaxSessionTurns
  /\ inbox' = {[session_id |-> "s1", question |-> question]}
  /\ sent' = sent + 1
  /\ UNCHANGED <<conversation_sessions, pc, request, state, calls, reply, served>>
  /\ UNCHANGED aside

NextSession ==
  \/ \E q \in UserTexts : SubmitNext(q)
  \/ chat_query_begin
  \/ Router
  \/ Classify
  \/ GenerateSql
  \/ ExecuteSql
  \/ Summarize
  \/ Respond

SpecSession == Init /\ [][NextSession]_vars

\* C15: over the turns of a session the rolling summary is regenerated
\* exactly on the turns whose number is a multiple of 3, from the 5 most
\* recent TurnRecords at that moment, and every other turn leaves it as the
\* turn before left it
C15_SummaryEveryThirdTurn ==
  \A k \in SessionKeys :
    \A i \in 1..Len(served[k]) :
      IF i % 3 = 0
      THEN served[k][i].conversation_context
             = summarize_conversation_context(served[k][i].history)
      ELSE served[k][i].conversation_context
             = (IF i = 1 THEN <<>> ELSE served[k][i - 1].conversation_context)

\* C16: right after the memory update of turn N in which a query was
\* generated and returned at least one row, result_cache["turn_N"] holds
\* the generated query unchanged, the first min(50, row count) rows in
\* their order, and the true number of rows
C16_CacheHoldsQueryRowsAndCount ==
  (/\ pc = "RESPOND"
   /\ Truthy(Get(state, "generated_sql", None))
   /\ Get(state, "rows", <<>>) # <<>>)
  => LET memory == state.session_memory
         key == CacheKey(memory.turn_count)
         kept == IF Len(state.rows) < 50 THEN Len(state.rows) ELSE 50
     IN  /\ Has(memory.result_cache, key)
         /\ Last(memory.query_history).turn = memory.turn_count
         /\ memory.result_cache[key].sql = state.generated_sql
         /\ Len(memory.result_cache[key].rows) = kept
         /\ \A i \in 1..kept : memory.result_cache[key].rows[i] = state.rows[i]
         /\ memory.result_cache[key].full_count = Len(state.rows)

\* a turn with 51 rows has been cached: 50 rows kept, 51 counted
C16_Witness ==
  /\ pc = "RESPOND"
  /\ Len(Get(state, "rows", <<>>)) = 51
  /\ Has(state.session_memory.result_cache, CacheKey(1))
  /\ Len(state.session_memory.result_cache[CacheKey(1)].rows) = 50
  /\ state.session_memory.result_cache[CacheKey(1)].full_count = 51

\* C17: within a session each result_cache key turn_<n> is written at most
\* once: an entry that a turn wrote is still there, unchanged, after every
\* later turn of the session
C17_CacheEntriesAreNeverOverwritten ==
  \A k \in SessionKeys :
    \A i, j \in 1..Len(served[k]) :
      i < j =>
        \A key \in DOMAIN served[k][i].result_cache :
          /\ Has(served[k][j].result_cache, key)
          /\ served[k][j].result_cache[key] = served[k][i].result_cache[key]

\* C18: the entity index only grows within a session: every key present
\* after a turn is present after every later turn, and adding a key that
\* is already there does not add it again
C18_EntityIndexOnlyGrows ==
  \A k \in SessionKeys :
    \A j \in 1..Len(served[k]) :
      LET index == served[k][j].entity_references
      IN  /\ \A a, b \in 1..Len(index) : index[a] = index[b] => a = b
          /\ \A i \in 1..(j - 1) :
               \A a \in 1..Len(served[k][i].entity_references) :
                 InList(served[k][i].entity_references[a], index)

\* the places of the text where the word occurs
Occurrences(word, text) ==
  {i \in 1..(Len(text) - Len(word) + 1) : SubSeq(text, i, i + Len(word) - 1) = word}

\* one FROM, no JOIN and no comma after it: the statement reads one table
ReferencesOneTable(sql) ==
  /\ Cardinality(Occurrences(FromWord, Upper(sql))) = 1
  /\ Occurrences(<<"J","O","I","N">>, Upper(sql)) = {}
  /\ \A i \in Occurrences(FromWord, Upper(sql)) :
       \A j \in i..Len(sql) : sql[j] # ","

\* the data store executed the generated query of the turn
ExecutedOk == \E i \in CallsOf(calls, "db", "execute") : calls[i].outcome = "ok"

\* C19: at the end of every turn whose generated query executed
\* successfully and referenced exactly one table, session_context's
\* current_table equals session_memory's last_table (zero rows and table
\* references that are not a bare identifier after FROM included)
C19_CurrentTableIsLastTable ==
  (/\ pc = "RESPOND"
   /\ ExecutedOk
   /\ ReferencesOneTable(state.generated_sql))
  => /\ Has(state.session_memory, "last_table")
     /\ state.session_context.current_table = state.session_memory.last_table

\* the same for turns that returned rows from a bare or schema-qualified
\* table name
C19_WithRowsAndPlainName ==
  (/\ pc = "RESPOND"
   /\ ExecutedOk
   /\ ReferencesOneTable(state.generated_sql)
   /\ state.rows # <<>>
   /\ FromMatches(state.generated_sql) # {})
  => /\ Has(state.session_memory, "last_table")
     /\ state.session_context.current_table = state.session_memory.last_table

\* the step is a call of /chatbot/clear-session
ClearStep ==
  /\ pc = "idle"
  /\ pc' = "idle"
  /\ inbox' = inbox
  /\ Has(reply', "message")

\* C20: clear_session(k) removes session k when it exists and acknowledges;
\* on a key that does not exist it gives the same acknowledgement and leaves
\* the registry unchanged, so a second clear changes nothing, and the other
\* sessions are never affected
C20_ClearSessionIsIdempotent ==
  [][ClearStep =>
       LET k == reply'.message
       IN  /\ reply' = [status |-> 200, message |-> k]
           /\ ~Has(conversation_sessions', k)
           /\ \A o \in SessionKeys \ {k} :
                /\ Has(conversation_sessions', o) = Has(conversation_sessions, o)
                /\ Has(conversation_sessions, o)
                     => conversation_sessions'[o] = conversation_sessions[o]
           /\ ~Has(conversation_sessions, k)
                => conversation_sessions' = conversation_sessions
           /\ UNCHANGED <<inbox, request, state, calls, sent>>]_vars

\* session "s1" has been cleared while session "default" keeps its messages
C20_Witness ==
  /\ pc = "idle"
  /\ reply = [status |-> 200, message |-> "s1"]
  /\ ~Has(conversation_sessions, "s1")
  /\ Has(conversation_sessions, "default")
  /\ Len(conversation_sessions["default"]) = 2
  /\ sent = 2
  /\ inbox = {}

\* the step is a call of /chatbot/health
HealthStep ==
  /\ pc = "idle"
  /\ pc' = "idle"
  /\ inbox' = inbox
  /\ Has(reply', "active_sessions")

\* the step in which chat_query takes up a request
BeginStep == pc = "idle" /\ pc' = "ROUTER"

\* C21: health_check returns the number of sessions in the registry and
\* changes no state; the registry it counts holds exactly the keys that
\* turns created and that were not cleared since (a key enters only when
\* chat_query takes up a request on it and leaves only by clear_session)
C21_HealthCountsAndChangesNothing ==
  [][/\ HealthStep =>
          /\ reply' = [status |-> 200,
                       active_sessions |->
                         Cardinality({k \in SessionKeys : Has(conversation_sessions, k)})]
          /\ UNCHANGED <<conversation_sessions, inbox, pc, request, state,
                         calls, served, sent>>
     /\ \A k \in SessionKeys :
          /\ (~Has(conversation_sessions, k) /\ Has(conversation_sessions', k))
               => (BeginStep /\ request'.session_id = k)
          /\ (Has(conversation_sessions, k) /\ ~Has(conversation_sessions', k))
               => (ClearStep /\ reply'.message = k)
     /\ DOMAIN conversation_sessions' \subseteq SessionKeys]_vars

\* two sessions have been created and a health check has counted them
C21_Witness ==
  /\ pc = "idle"
  /\ reply = [status |-> 200, active_sessions |-> 2]
  /\ Cardinality(DOMAIN conversation_sessions) = 2
  /\ \A k \in SessionKeys : Len(conversation_sessions[k]) = 2

\* the step in which chat_query stores the two messages and answers
RespondStep == pc = "RESPOND" /\ pc' = "idle"

\* C22: a turn on a key never seen before creates the session instead of
\* failing, and turns on different keys do not disturb one another: taking
\* up a request inserts its key and touches no other session, a transcript
\* changes only when a turn on its own key answers, and a turn fails only
\* on a failed call of the completion engine
C22_SessionsAreCreatedOnFirstUse ==
  [][/\ BeginStep =>
          LET key == request'.session_id
          IN  /\ Has(conversation_sessions', key)
              /\ ~Has(conversation_sessions, key)
                   => conversation_sessions'[key] = <<>>
              /\ \A o \in SessionKeys \ {key} :
                   /\ Has(conversation_sessions', o) = Has(conversation_sessions, o)
                   /\ Has(conversation_sessions, o)
                        => conversation_sessions'[o] = conversation_sessions[o]
     /\ \A k \in SessionKeys :
          (/\ Has(conversation_sessions, k)
           /\ Has(conversation_sessions', k)
           /\ conversation_sessions'[k] # conversation_sessions[k])
          => (RespondStep /\ request.session_id = k)
     /\ RespondStep =>
          LET key == request.session_id
          IN  /\ Has(conversation_sessions, key)
              /\ Len(conversation_sessions'[key]) >= 2
              /\ Last(conversation_sessions'[key]).content = reply'.answer
              /\ reply'.status = 200
     /\ (pc # "idle" /\ pc' = "idle" /\ ~RespondStep)
          => /\ reply'.status = 500
             /\ Last(calls').svc = "llm"
             /\ Last(calls').outcome = "error"]_vars

\* the turn on the unseen key "s1" has created its session and reached its
\* answer while a request on the unseen key "default" is waiting
C22_Witness ==
  /\ pc = "RESPOND"
  /\ request.session_id = "s1"
  /\ Has(conversation_sessions, "s1")
  /\ conversation_sessions["s1"] = <<>>
  /\ ~Has(conversation_sessions, "default")
  /\ \E r \in inbox : SessionKey(r.session_id) = "default"

(***************************************************************************)
(* The service with its scheduling: agent_graph.invoke runs the nodes of a *)
(* turn one after the other without waiting for anything but the two       *)
(* external calls, which return or raise, and chat_query then answers      *)
(***************************************************************************)

\* the summarizer returns: the only step that leaves SUMMARIZE is Summarize,
\* which is enabled whenever the turn is there
SummarizeReturns == pc = "SUMMARIZE" /\ pc' = "RESPOND"

SpecLive ==
  /\ Spec
  /\ WF_vars(Router)
  /\ WF_vars(Classify)
  /\ WF_vars(GenerateSql)
  /\ WF_vars(ExecuteSql)
  /\ WF_pc(SummarizeReturns)
  /\ WF_vars(Respond)

\* the edges of the graph, and the two ways a turn ends
StageEdges ==
  {<<"idle", "ROUTER">>, <<"ROUTER", "CLASSIFY">>,
   <<"CLASSIFY", "GENERATE_SQL">>, <<"CLASSIFY", "SUMMARIZE">>,
   <<"GENERATE_SQL", "EXECUTE_SQL">>, <<"EXECUTE_SQL", "SUMMARIZE">>,
   <<"SUMMARIZE", "RESPOND">>, <<"RESPOND", "idle">>,
   <<"CLASSIFY", "idle">>, <<"GENERATE_SQL", "idle">>}

\* the turn was ended by a failed call of the completion engine
TurnFailed ==
  /\ pc = "idle"
  /\ reply.status = 500
  /\ calls # <<>>
  /\ Last(calls).svc = "llm"
  /\ Last(calls).outcome = "error"

\* C23: every turn visits router, classifier, then (only when needs_sql)
\* composer and executor, then the response composer, each at most once
\* and in that order; and when no external call fails the turn reaches the
\* response composer and ends
C23_StagesRunOnceInOrder ==
  /\ [][/\ pc' # pc => <<pc, pc'>> \in StageEdges
        /\ (pc # "idle" /\ state' # state) => pc' # pc
        /\ pc' = "GENERATE_SQL" => state'.needs_sql = TRUE
        /\ (pc = "CLASSIFY" /\ pc' = "SUMMARIZE") => state'.needs_sql = FALSE
        /\ (pc = "CLASSIFY" /\ pc' = "idle") => TurnFailed'
        /\ (pc = "GENERATE_SQL" /\ pc' = "idle") => TurnFailed'
        /\ Cardinality(CallsOf(calls', "llm", "classify")) <= 1
        /\ Cardinality(CallsOf(calls', "llm", "compose")) <= 1
        /\ Cardinality(CallsOf(calls', "db", "execute")) <= 1]_vars
  /\ (pc = "ROUTER") ~> (pc = "SUMMARIZE" \/ TurnFailed)
  /\ (pc = "SUMMARIZE") ~> (pc = "idle" /\ reply.status = 200)

\* a data turn has gone through all five stages and is about to answer
C23_Witness ==
  /\ pc = "RESPOND"
  /\ state.needs_sql = TRUE
  /\ Cardinality(CallsOf(calls, "llm", "classify")) = 1
  /\ Cardinality(CallsOf(calls, "llm", "compose")) = 1
  /\ Cardinality(CallsOf(calls, "db", "execute")) = 1
  /\ Has(state, "response")

(***************************************************************************)
(* C24 -- the summarizer updates the memory once, after the answer is set  *)
(***************************************************************************)

\* C24: on every path of the summarizer (a list category with at most 100
\* rows, a list category with more, another category with rows, no rows) the
\* step sets the answer and updates the memory exactly once: the turn count
\* grows by one, the history keeps its records and gains one, whose number is
\* the new count and whose preview is the first 200 characters of the answer
\* of this very turn.
C24_MemoryUpdatedOnceAfterTheAnswer ==
  [][SummarizeReturns =>
       LET before == state.session_memory
           after == state'.session_memory
           kept == Len(before.query_history)
       IN  /\ Truthy(Get(state', "response", None))
           /\ after.turn_count = before.turn_count + 1
           /\ kept < MaxHistory =>
                /\ Len(after.query_history) = kept + 1
                /\ SubSeq(after.query_history, 1, kept) = before.query_history
           /\ Last(after.query_history).turn = after.turn_count
           /\ Last(after.query_history).query = state.user_query
           /\ Last(after.query_history).response_summary
                = Prefix(state'.response, PreviewLen)]_vars

C24_Witness ==
  /\ pc = "RESPOND"
  /\ state.query_type = <<"l","i","s","t","_","a","l","l">>
  /\ Len(state.rows) = 101
  /\ Len(state.response) > PreviewLen
  /\ state.session_memory.turn_count = 1
  /\ Len(state.session_memory.query_history) = 1
  /\ state.session_memory.query_history[1].response_summary
       = Prefix(state.response, PreviewLen)
  /\ state.session_memory.query_history[1].response_summary # state.response

(***************************************************************************)
(* C25 -- one memory update numbers its record and its cache entry with    *)
(* the incremented turn count                                              *)
(***************************************************************************)

\* C25: a memory update increments turn_count first: the record it appends
\* carries the new count, and a cache entry written by the same update is
\* stored under turn_<new count> and no other key is added; hence the turn
\* numbers of the history are consecutive and increasing and the last one is
\* turn_count.
C25_RecordAndCacheKeyCarryTheNewCount ==
  /\ [](LET memory == state.session_memory
            history == memory.query_history
        IN  /\ \A i \in 1..(Len(history) - 1) :
                 history[i + 1].turn = history[i].turn + 1
            /\ history # <<>> => Last(history).turn = memory.turn_count)
  /\ [][LET before == state.session_memory
            after == state'.session_memory
            key == <<"t","u","r","n","_">> \o Digits(after.turn_count)
        IN  /\ after.turn_count = before.turn_count + 1
            /\ Last(after.query_history).turn = after.turn_count
            /\ DOMAIN after.result_cache \ DOMAIN before.result_cache \subseteq {key}
            /\ (Truthy(state'.generated_sql) /\ state'.rows # <<>>) =>
                 /\ Has(after.result_cache, key)
                 /\ ~Has(before.result_cache, key)
                 /\ after.result_cache[key].sql = state'.generated_sql]_vars

C25_Witness ==
  LET memory == state.session_memory
  IN  /\ memory.turn_count = 11
      /\ Len(memory.query_history) = 10
      /\ memory.query_history[1].turn = 2
      /\ memory.query_history[10].turn = 11
      /\ Has(memory.result_cache, <<"t","u","r","n","_","1","1">>)
      /\ ~Has(memory.result_cache, <<"t","u","r","n","_","1","0">>)

(***************************************************************************)
(* The memory update on turns of every kind, the memory and the context    *)
(* carried from one turn to the next (nodes.py, update_memory, lines       *)
(* 86-100)                                                                 *)
(***************************************************************************)

MaxTableTurns == 3

\* a turn without a query; queries that return rows from a plain table, with
\* a lower-case keyword, from a quoted table and from a table with its
\* schema; a query that returns nothing; a query whose execution fails
TableTurns ==
  {[user_query |-> <<"h","i">>, query_type |-> ConversationType,
    generated_sql |-> None, outcome |-> "none", rows |-> <<>>],
   [user_query |-> <<"s","h","o","w"," ","h","c","p">>, query_type |-> <<"l","i","s","t","_","a","l","l">>,
    generated_sql |-> <<"S","E","L","E","C","T"," ","*"," ","F","R","O","M"," ","h","c","p">>, outcome |-> "ok", rows |-> HcpRows(1)],
   [user_query |-> <<"s","h","o","w"," ","v","e","r","s","i","o","n","s">>, query_type |-> <<"l","i","s","t","_","a","l","l">>,
    generated_sql |-> <<"s","e","l","e","c","t"," ","*"," ","f","r","o","m"," "," ","l","i","s","t","_","v","e","r","s","i","o","n","s"," ","w","h","e","r","e"," ","1"," ","="," ","1">>, outcome |-> "ok",
    rows |-> HcpRows(2)],
   [user_query |-> <<"s","h","o","w"," ","h","c","p">>, query_type |-> <<"l","i","s","t","_","a","l","l">>,
    generated_sql |-> <<"S","E","L","E","C","T"," ","*"," ","F","R","O","M"," ","\"","h","c","p","\"">>, outcome |-> "ok", rows |-> HcpRows(1)],
   [user_query |-> <<"s","h","o","w"," ","h","c","p">>, query_type |-> <<"l","i","s","t","_","a","l","l">>,
    generated_sql |-> <<"S","E","L","E","C","T"," ","*"," ","F","R","O","M"," ","p","u","b","l","i","c",".","h","c","p">>, outcome |-> "ok", rows |-> HcpRows(1)],
   [user_query |-> <<"s","h","o","w"," ","e","n","t","r","i","e","s">>, query_type |-> <<"l","i","s","t","_","a","l","l">>,
    generated_sql |-> <<"S","E","L","E","C","T"," ","*"," ","F","R","O","M"," ","t","a","r","g","e","t","_","l","i","s","t","_","e","n","t","r","i","e","s">>, outcome |-> "ok",
    rows |-> <<>>],
   [user_query |-> <<"s","h","o","w"," ","e","n","t","r","i","e","s">>, query_type |-> <<"l","i","s","t","_","a","l","l">>,
    generated_sql |-> <<"S","E","L","E","C","T"," ","*"," ","F","R","O","M"," ","t","a","r","g","e","t","_","l","i","s","t","_","e","n","t","r","i","e","s"," ","W","H","E","R","E">>, outcome |-> "error",
    rows |-> <<>>]}

\* the state EXECUTE_SQL (or the graph without it) hands to the summarizer
TableTurnState(t, context, memory) ==
  LET base == [user_query |-> t.user_query,
               query_type |-> t.query_type,
               generated_sql |-> t.generated_sql,
               needs_sql |-> t.outcome # "none",
               is_clarification |-> FALSE,
               session_context |-> context,
               session_memory |-> memory]
  IN  CASE t.outcome = "ok" -> execute_sql_ok(base, t.rows)
        [] t.outcome = "error" -> execute_sql_error(base, ExecuteError)
        [] OTHER -> base

InitTables == InitMemory

TableTurn ==
  /\ pc = "SUMMARIZE"
  /\ state.session_memory.turn_count < MaxTableTurns
  /\ \E t \in TableTurns :
       state' = summarizer_node(
                  TableTurnState(t, state.session_context, state.session_memory))
  /\ UNCHANGED <<conversation_sessions, inbox, pc, request, calls, reply, served, sent>>
  /\ UNCHANGED aside

SpecTables == InitTables /\ [][TableTurn]_vars

(***************************************************************************)
(* C26 -- when the memory update moves last_table and current_table        *)
(***************************************************************************)

\* FROM (in any case) at i, then white space, then a word character at j
FromThenWordAt(sql, i, j) ==
  /\ i + 4 < j /\ j <= Len(sql)
  /\ Upper(SubSeq(sql, i, i + 3)) = <<"F","R","O","M">>
  /\ \A k \in (i + 4)..(j - 1) : sql[k] \in Whitespace
  /\ sql[j] \in WordChars

HasFromThenWord(sql) ==
  \E i \in 1..Len(sql) : \E j \in (i + 5)..Len(sql) : FromThenWordAt(sql, i, j)

\* `word` is the whole run of word characters at the leftmost such place
IsWordAfterFirstFrom(sql, word) ==
  \E i \in 1..Len(sql) : \E j \in (i + 5)..Len(sql) :
    /\ FromThenWordAt(sql, i, j)
    /\ \A m \in 1..(i - 1) : \A n \in (m + 5)..Len(sql) : ~FromThenWordAt(sql, m, n)
    /\ word # <<>>
    /\ Len(word) <= Len(sql) - j + 1
    /\ word = SubSeq(sql, j, j + Len(word) - 1)
    /\ \A k \in 1..Len(word) : word[k] \in WordChars
    /\ (j + Len(word) <= Len(sql)) => sql[j + Len(word)] \notin WordChars

\* C26: a memory update changes last_table or current_table only on a turn
\* with a generated query and at least one row; it then sets both to the
\* identifier that follows the first FROM of that query; a turn with no
\* query, with zero rows or with a failed execution leaves both as they were.
C26_TablesFollowTheFirstFromOfAQueryWithRows ==
  [][LET sql == Get(state', "generated_sql", None)
         rows == Get(state', "rows", <<>>)
         last_before == Get(state.session_memory, "last_table", None)
         last_after == Get(state'.session_memory, "last_table", None)
         current_before == state.session_context.current_table
         current_after == state'.session_context.current_table
         moved == last_after # last_before \/ current_after # current_before
         named == HasFromThenWord(sql)
     IN  /\ moved => Truthy(sql) /\ rows # <<>>
         /\ (Truthy(sql) /\ rows # <<>> /\ named) =>
              /\ last_after = current_after
              /\ IsWordAfterFirstFrom(sql, last_after)
         /\ ~(Truthy(sql) /\ rows # <<>> /\ named) =>
              /\ last_after = last_before
              /\ current_after = current_before]_vars

C26_Witness ==
  LET memory == state.session_memory
      history == memory.query_history
  IN  /\ memory.turn_count = 3
      /\ history[1].sql = <<"s","e","l","e","c","t"," ","*"," ","f","r","o","m"," "," ","l","i","s","t","_","v","e","r","s","i","o","n","s"," ","w","h","e","r","e"," ","1"," ","="," ","1">>
      /\ history[1].row_count = 2
      /\ history[2].sql = <<"S","E","L","E","C","T"," ","*"," ","F","R","O","M"," ","t","a","r","g","e","t","_","l","i","s","t","_","e","n","t","r","i","e","s">>
      /\ history[2].row_count = 0
      /\ history[3].sql = <<"S","E","L","E","C","T"," ","*"," ","F","R","O","M"," ","t","a","r","g","e","t","_","l","i","s","t","_","e","n","t","r","i","e","s"," ","W","H","E","R","E">>
      /\ Get(memory, "last_table", None) = <<"l","i","s","t","_","v","e","r","s","i","o","n","s">>
      /\ state.session_context.current_table = <<"l","i","s","t","_","v","e","r","s","i","o","n","s">>

(***************************************************************************)
(* C27 -- the tables the router tracks                                     *)
(***************************************************************************)

\* the names of the router's vocabulary found in the text, in its order
MatchedTables(text) ==
  SelectSeq(router_tables, LAMBDA name : Contains(name, Lower(text)))

\* the router step adds every matched name to mentioned_tables, keeps what
\* was there, never stores a name twice, and makes the last match the
\* current table; without a match it leaves both alone
C27_RouterTracksEveryMention ==
  [][(pc = "ROUTER" /\ pc' = "CLASSIFY") =>
       LET before == state.session_context
           after == state'.session_context
           found == MatchedTables(state.user_query)
       IN  /\ SubSeq(after.mentioned_tables, 1, Len(before.mentioned_tables))
                = before.mentioned_tables
           /\ \A a, b \in 1..Len(after.mentioned_tables) :
                after.mentioned_tables[a] = after.mentioned_tables[b] => a = b
           /\ \A i \in 1..Len(found) : InList(found[i], after.mentioned_tables)
           /\ \A a \in 1..Len(after.mentioned_tables) :
                \/ InList(after.mentioned_tables[a], before.mentioned_tables)
                \/ InList(after.mentioned_tables[a], found)
           /\ found # <<>> => after.current_table = found[Len(found)]
           /\ found = <<>> =>
                /\ after.mentioned_tables = before.mentioned_tables
                /\ after.current_table = before.current_table]_vars

\* C27: the router adds every vocabulary name found in the user text to
\* mentioned_tables without a duplicate and makes the last match the current
\* table, leaving both alone without a match; and a name mentioned in an
\* earlier turn of a session is still in mentioned_tables in its later turns.
C27_MentionedTablesLastTheSession ==
  /\ C27_RouterTracksEveryMention
  /\ [](\A k \in SessionKeys :
          \A j \in 1..Len(served[k]) : \A i \in 1..(j - 1) :
            \A a \in 1..Len(served[k][i].mentioned_tables) :
              InList(served[k][i].mentioned_tables[a],
                     served[k][j].mentioned_tables))

(***************************************************************************)
(* C28 -- one line for every row to render                                 *)
(***************************************************************************)

\* the rows the answer is to render: the first 20 of a list of more than
\* 100 rows, all rows otherwise
RowsToRender ==
  LET n == Len(Get(state, "rows", <<>>))
  IN  IF InList(Get(state, "query_type", ConversationType), list_types)
         /\ n > ShowAllLimit
      THEN sample_size ELSE n

\* the lines of the text that start with "<i>. "
IndexLines(text, i) ==
  {s \in LineStarts(text) :
     /\ s + Len(Digits(i)) + 1 <= Len(text)
     /\ SubSeq(text, s, s + Len(Digits(i)) + 1) = Digits(i) \o <<".", " ">>}

\* every row to render has its line, numbered 1..k in the order of the rows
OneLineForEveryRow ==
  LET text == state.response
      k == RowsToRender
  IN  /\ Cardinality(RenderedRows(text)) = k
      /\ \A i \in 1..k : Cardinality(IndexLines(text, i)) = 1
      /\ \A i \in 1..(k - 1) :
           \A s \in IndexLines(text, i), t \in IndexLines(text, i + 1) : s < t

\* C28: in every rendering branch each row to render yields exactly one
\* line (a row without a value in the selected fields is rendered from its
\* other fields, not dropped): as many lines as rows to render, numbered 1..k
\* without gaps in the order of the data store.
C28_EveryRowYieldsOneLine ==
  (pc = "RESPOND" /\ Get(state, "rows", <<>>) # <<>>) => OneLineForEveryRow

\* the same for the branch that shows all rows of a list (at most 100)
C28_ShowAllBranch ==
  (/\ pc = "RESPOND"
   /\ Get(state, "rows", <<>>) # <<>>
   /\ InList(state.query_type, list_types)
   /\ Len(state.rows) <= ShowAllLimit)
  => OneLineForEveryRow

\* the same, in every branch, for rows that each have a value to show
C28_RowsWithAValue ==
  (/\ pc = "RESPOND"
   /\ Get(state, "rows", <<>>) # <<>>
   /\ \A i \in 1..Len(state.rows) :
        \E j \in 1..Len(state.rows[i]) : FieldTruthy(state.rows[i][j]))
  => OneLineForEveryRow

(***************************************************************************)
(* C29 -- categories outside the two list categories                       *)
(***************************************************************************)

\* the answer renders all n rows and has no truncation notice
AllRowsNoNotice ==
  /\ Truthy(Get(state, "response", None))
  /\ Cardinality(RenderedRows(state.response)) = Len(state.rows)
  /\ ~Contains(MoreEntries, state.response)
  /\ ~Contains(<<"i","n"," ","t","o","t","a","l">>, state.response)

\* C29: for a category outside list_all and ad_hoc_select, an unknown or
\* malformed one included, a turn with n > 0 rows renders all n rows without
\* a truncation notice, whatever n is (above 100 as well), and the turn is
\* answered, not failed.
C29_OtherCategoriesRenderAllRows ==
  /\ []((/\ pc = "RESPOND"
         /\ Get(state, "rows", <<>>) # <<>>
         /\ ~InList(state.query_type, list_types))
        => AllRowsNoNotice)
  /\ [][(/\ pc = "RESPOND"
          /\ Get(state, "rows", <<>>) # <<>>
          /\ ~InList(state.query_type, list_types))
         => /\ pc' = "idle"
            /\ reply'.status = 200
            /\ reply'.answer = state.response
            /\ reply'.row_count = Len(state.rows)]_vars

\* the same for rows that each have a value to show
C29_RowsWithAValue ==
  (/\ pc = "RESPOND"
   /\ Get(state, "rows", <<>>) # <<>>
   /\ ~InList(state.query_type, list_types)
   /\ \A i \in 1..Len(state.rows) :
        \E j \in 1..Len(state.rows[i]) : FieldTruthy(state.rows[i][j]))
  => AllRowsNoNotice

\* an unknown category with more than 100 rows has been answered in full
C29_Reached ==
  /\ pc = "RESPOND"
  /\ state.query_type = <<"i"," ","t","h","i","n","k",":"," ","l","i","s","t","_","a","l","l",".">>
  /\ Len(state.rows) = 101
  /\ \A i \in 1..Len(state.rows) :
       \E j \in 1..Len(state.rows[i]) : FieldTruthy(state.rows[i][j])
  /\ AllRowsNoNotice

(***************************************************************************)
(* C30 -- the executor on a turn that needs data and has no query          *)
(***************************************************************************)

\* the executor runs on a turn that needs data and whose query text is
\* empty or missing
ExecutesNoQuery ==
  /\ pc = "EXECUTE_SQL"
  /\ pc' = "SUMMARIZE"
  /\ Get(state, "needs_sql", FALSE) = TRUE
  /\ ~Truthy(Get(state, "generated_sql", None))

\* such a step makes no call to the data store and yields no rows
C30_NoQueryNoCallNoRows ==
  [][ExecutesNoQuery =>
       /\ calls' = calls
       /\ Has(state', "rows")
       /\ state'.rows = <<>>]_vars

\* C30: when the turn needs data but the generated query is empty or null,
\* the executor does not call the data store, yields an empty row sequence
\* and records a failure reason in last_results_summary.
C30_NoQueryIsRecordedAsAFailure ==
  /\ C30_NoQueryNoCallNoRows
  /\ [][ExecutesNoQuery =>
          Truthy(state'.session_context.last_results_summary)]_vars

\* the executor has run on an empty query
C30_Reached ==
  /\ pc = "SUMMARIZE"
  /\ Get(state, "needs_sql", FALSE) = TRUE
  /\ Get(state, "generated_sql", None) = <<>>
  /\ Has(state, "rows")
  /\ CallsOf(calls, "db", "execute") = {}

(***************************************************************************)
(* C31 -- the connection of the executor                                   *)
(***************************************************************************)

\* the connections the log shows opened, and the ones it shows closed
Opened(log) ==
  {i \in CallsOf(log, "db", "connect") : log[i].outcome = "ok"}

Closed(log) == CallsOf(log, "db", "close")

\* C31: a call of the executor opens at most one connection and closes it
\* before it returns, after a success and after every failure: whenever the
\* executor is not running no connection is open, every statement runs on
\* the connection opened just before it, and that connection is closed
\* right after it.
C31_ConnectionIsScopedToTheCall ==
  /\ [](/\ Cardinality(Opened(calls)) = Cardinality(Closed(calls))
        /\ \A i \in Opened(calls) :
             \E j \in Closed(calls) :
               /\ i < j
               /\ \A m \in (i + 1)..(j - 1) :
                    calls[m].svc = "db" /\ calls[m].op = "execute"
        /\ \A e \in CallsOf(calls, "db", "execute") :
             /\ e - 1 \in Opened(calls)
             /\ e + 1 \in Closed(calls))
  /\ [][(pc = "EXECUTE_SQL" /\ pc' = "SUMMARIZE") =>
          /\ Opened(calls) = {} /\ Closed(calls) = {}
          /\ Cardinality(CallsOf(calls', "db", "connect")) <= 1
          /\ Cardinality(Opened(calls')) = Cardinality(Closed(calls'))]_vars

\* a turn whose statement failed on an open connection has been answered
C31_Witness ==
  /\ pc = "idle"
  /\ reply.status = 200
  /\ \E i \in Opened(calls) :
       /\ calls[i + 1].op = "execute" /\ calls[i + 1].outcome = "error"
       /\ calls[i + 2].op = "close"
       /\ Closed(calls) = {i + 2}

(***************************************************************************)
(* The service with external calls that may never respond.  The nodes pass *)
(* no timeout to chat.completions.create (nodes.py:330-335, 465-470), to   *)
(* psycopg2.connect or to the cursor (nodes.py:493-498): the node waits in *)
(* the call, and agent_graph.invoke, which chat_query calls without an     *)
(* await, waits with it                                                    *)
(***************************************************************************)

\* the classification call does not respond
ClassifyCallHangs ==
  /\ pc = "CLASSIFY"
  /\ Get(state, "needs_sql", FALSE)
  /\ calls' = Append(calls, LlmCall(ClassifyPrompt(state), "pending", <<>>))
  /\ pc' = "WAITING"
  /\ UNCHANGED <<conversation_sessions, inbox, request, state, reply, served, sent>>
  /\ UNCHANGED aside

\* the composition call does not respond
GenerateSqlCallHangs ==
  /\ pc = "GENERATE_SQL"
  /\ Get(state, "needs_sql", FALSE)
  /\ calls' = Append(calls, LlmCall(ComposerContext(state), "pending", <<>>))
  /\ pc' = "WAITING"
  /\ UNCHANGED <<conversation_sessions, inbox, request, state, reply, served, sent>>
  /\ UNCHANGED aside

\* the data store does not respond, to the connect or to the statement
ExecuteSqlCallHangs ==
  /\ pc = "EXECUTE_SQL"
  /\ ~execute_skips(state)
  /\ \/ calls' = Append(calls, DbCall("connect", <<>>, "pending", <<>>))
     \/ calls' = calls \o <<DbCall("connect", <<>>, "ok", <<>>),
                            DbCall("execute", state.generated_sql, "pending", <<>>)>>
  /\ pc' = "WAITING"
  /\ UNCHANGED <<conversation_sessions, inbox, request, state, reply, served, sent>>
  /\ UNCHANGED aside

\* the completion client gives up on its own and raises; nothing in the
\* node catches it
CompletionTimesOut ==
  /\ pc = "WAITING"
  /\ Last(calls).svc = "llm"
  /\ calls' = [calls EXCEPT ![Len(calls)].outcome = "error"]
  /\ Raise500
  /\ UNCHANGED <<conversation_sessions, inbox, served, sent>>
  /\ UNCHANGED aside

NextWait ==
  \/ Next
  \/ ClassifyCallHangs
  \/ GenerateSqlCallHangs
  \/ ExecuteSqlCallHangs
  \/ CompletionTimesOut

\* the scheduling of SpecLive, and a completion client that does give up
SpecWait ==
  /\ Init /\ [][NextWait]_vars
  /\ WF_vars(Router)
  /\ WF_vars(Classify)
  /\ WF_vars(GenerateSql)
  /\ WF_vars(ExecuteSql)
  /\ WF_pc(SummarizeReturns)
  /\ WF_vars(Respond)
  /\ WF_vars(CompletionTimesOut)

(***************************************************************************)
(* C32 -- a call that never responds                                       *)
(***************************************************************************)

\* C32: a turn whose completion call or data-store call does not respond
\* still completes: after a bounded wait the call counts as failed and the
\* turn returns an answer.
C32_SilentCallsEndInAnAnswer ==
  (pc = "WAITING") ~> (pc = "idle" /\ reply.status = 200)

\* the weaker statement that such a turn ends at all
C32_SilentCallsEnd ==
  (pc = "WAITING") ~> (pc = "idle")

\* a turn waits for the data store with its connection open
C32_Reached ==
  /\ pc = "WAITING"
  /\ Last(calls).svc = "db"
  /\ Last(calls).op = "execute"
  /\ Last(calls).outcome = "pending"

(***************************************************************************)
(* C33 -- the keys of the result cache                                     *)
(***************************************************************************)

\* C33: every key of the result cache is turn_<n> with 1 <= n <= turn_count
\* and belongs to a turn that had a query and at least one row (the record of
\* that turn, while the history still has it, shows the same query and the
\* same number of rows, and every such record has its entry); an update
\* removes no entry and changes none, so an entry outlives the record of its
\* turn when the history is trimmed.
C33_CacheKeysAreTurnsWithRows ==
  /\ [](LET memory == state.session_memory
            cache == memory.result_cache
            history == memory.query_history
        IN  /\ \A key \in DOMAIN cache :
                 /\ \E n \in 1..memory.turn_count : key = <<"t","u","r","n","_">> \o Digits(n)
                 /\ Truthy(cache[key].sql)
                 /\ cache[key].rows # <<>>
                 /\ cache[key].full_count >= 1
            /\ \A i \in 1..Len(history) :
                 LET key == <<"t","u","r","n","_">> \o Digits(history[i].turn)
                 IN  /\ Has(cache, key) <=>
                          (Truthy(history[i].sql) /\ history[i].row_count >= 1)
                     /\ Has(cache, key) =>
                          /\ cache[key].sql = history[i].sql
                          /\ cache[key].full_count = history[i].row_count)
  /\ [][\A key \in DOMAIN state.session_memory.result_cache :
          /\ Has(state'.session_memory.result_cache, key)
          /\ state'.session_memory.result_cache[key]
               = state.session_memory.result_cache[key]]_vars

\* after twelve turns the entries of turns 1 and 2 are in the cache and
\* their records are gone from the history
C33_Witness ==
  LET memory == state.session_memory
  IN  /\ memory.turn_count = 12
      /\ Len(memory.query_history) = 10
      /\ memory.query_history[1].turn = 3
      /\ Has(memory.result_cache, <<"t","u","r","n","_","1">>)
      /\ Has(memory.result_cache, <<"t","u","r","n","_","2">>)
      /\ ~Has(memory.result_cache, <<"t","u","r","n","_","3">>)
      /\ Has(memory.result_cache, <<"t","u","r","n","_","1","2">>)

(***************************************************************************)
(* One client of session "s1" in a long conversation without data: eleven  *)
(* turns fill the transcript beyond its limit of 20 messages               *)
(***************************************************************************)

MaxTranscriptTurns == 11

\* two greetings, so that the messages of the transcript can be told apart
TalkTexts == {<<"H","i">>, <<"t","h","a","n","k","s">>}

SubmitTalk(question) ==
  /\ pc = "idle"
  /\ inbox = {}
  /\ sent < MaxTranscriptTurns
  /\ inbox' = {[session_id |-> "s1", question |-> question]}
  /\ sent' = sent + 1
  /\ UNCHANGED <<conversation_sessions, pc, request, state, calls, reply, served>>
  /\ UNCHANGED aside

\* the nodes a turn without data runs through
NextTranscript ==
  \/ \E q \in TalkTexts : SubmitTalk(q)
  \/ chat_query_begin
  \/ Router
  \/ Classify
  \/ Summarize
  \/ Respond

SpecTranscript == Init /\ [][NextTranscript]_vars

(***************************************************************************)
(* C34 -- the transcript grows by two messages and keeps the newest 20     *)
(***************************************************************************)

\* C34: the answering step of a turn appends the user's message and then
\* the assistant's answer to the transcript of its session; a transcript is
\* never longer than 20 messages: when the two new messages would make it
\* longer, the oldest are dropped and the newest 20 stay in order.
C34_TranscriptGrowsByTwoAndKeepsTheNewest ==
  /\ [](\A k \in DOMAIN conversation_sessions :
          Len(conversation_sessions[k]) <= 20)
  /\ [][(pc = "RESPOND" /\ pc' = "idle") =>
          LET key == request.session_id
              old == conversation_sessions[key]
              new == conversation_sessions'[key]
              grown == Len(old) + 2
              size == IF grown > 20 THEN 20 ELSE grown
              dropped == grown - size
          IN  /\ reply'.status = 200
              /\ Len(new) = size
              /\ \A i \in 1..(size - 2) : new[i] = old[i + dropped]
              /\ new[size - 1].role = "user"
              /\ new[size - 1].content = request.question
              /\ new[size].role = "assistant"
              /\ new[size].content = reply'.answer
              /\ \A k \in DOMAIN conversation_sessions \ {key} :
                   conversation_sessions'[k] = conversation_sessions[k]]_vars

\* the eleventh turn has been answered: the transcript holds 20 messages,
\* the first of them the question of the second turn, which differs from the
\* question of the first
C34_Witness ==
  /\ pc = "idle"
  /\ Len(served["s1"]) = 11
  /\ Len(conversation_sessions["s1"]) = 20
  /\ served["s1"][1].query # served["s1"][2].query
  /\ conversation_sessions["s1"][1].role = "user"
  /\ conversation_sessions["s1"][1].content = served["s1"][2].query
  /\ conversation_sessions["s1"][19].content = served["s1"][11].query

(***************************************************************************)
(* C35 -- a turn that fails leaves the transcript alone                    *)
(***************************************************************************)

\* the step in which a turn in flight ends with an internal error
FailStep == pc # "idle" /\ pc' = "idle" /\ reply'.status = 500

\* C35: when a turn fails with an internal error the transcript of its
\* session is what it was before the turn: taking up the request changes no
\* transcript and at most registers the key, new, with an empty transcript;
\* while the turn is in flight the transcript stays what the handler read at
\* its start; and the failing step changes no session and answers nothing.
C35_FailedTurnLeavesTranscript ==
  /\ [][BeginStep =>
          \A k \in DOMAIN conversation_sessions' :
            IF Has(conversation_sessions, k)
            THEN conversation_sessions'[k] = conversation_sessions[k]
            ELSE k = request'.session_id /\ conversation_sessions'[k] = <<>>]_vars
  /\ [](pc # "idle" =>
          /\ Has(conversation_sessions, request.session_id)
          /\ conversation_sessions[request.session_id] = state.conversation_history)
  /\ [][FailStep =>
          /\ conversation_sessions' = conversation_sessions
          /\ served' = served]_vars

\* the second request of session "s1" has failed after the first was
\* answered: the transcript holds the two messages of the first turn
C35_Witness ==
  /\ pc = "idle"
  /\ reply.status = 500
  /\ sent = 2
  /\ inbox = {}
  /\ DOMAIN conversation_sessions = {"s1"}
  /\ Len(conversation_sessions["s1"]) = 2
  /\ Len(served["s1"]) = 1
  /\ served["default"] = <<>>
  /\ Last(calls).outcome = "error"

\* ---------------------------------------------------------------------
\* Clear requests that arrive while a turn is in flight.  chat_query and
\* clear_session are coroutines without an await (routes/chatbot.py:54,
\* 130) and agent_graph.invoke is a plain call (line 93): the event loop
\* runs one handler at a time from its start to its return, so a clear
\* that arrives during a turn waits until the turn has returned.
\* ---------------------------------------------------------------------

\* The most clear requests a behaviour receives.
MaxClears == 2

\* A DELETE /chatbot/session/{session_id} arrives; in_flight records that
\* a turn on the same session was running at that moment.
RequestClear(session_id) ==
  /\ Cardinality(clears) < MaxClears
  /\ \E c \in {[session_id |-> session_id,
                in_flight |-> pc # "idle" /\ request.session_id = session_id,
                done |-> FALSE]} :
       /\ c \notin clears
       /\ clears' = clears \cup {c}
  /\ UNCHANGED <<conversation_sessions, inbox, pc, request, state, calls, reply,
                 served, sent, list_versions, list_entries, add_calls>>

\* a service whose handlers interleave: the clear runs in the middle of a turn
clear_session_next_in_flight ==
  /\ \E c \in {c \in clears : ~c.done} :
       /\ clears' = (clears \ {c}) \cup {[c EXCEPT !.done = TRUE]}
       /\ conversation_sessions' =
            IF Has(conversation_sessions, c.session_id)
            THEN [k \in DOMAIN conversation_sessions \ {c.session_id} |->
                    conversation_sessions[k]]
            ELSE conversation_sessions
       /\ reply' = [status |-> 200, message |-> c.session_id]
       /\ served' = [served EXCEPT ![c.session_id] = <<>>]
  /\ UNCHANGED <<inbox, pc, request, state, calls, sent,
                 list_versions, list_entries, add_calls>>

\* routes/chatbot.py:130-135, run by the event loop once no handler runs
clear_session_next ==
  /\ pc = "idle"
  /\ \E c \in {c \in clears : ~c.done} :
       /\ clears' = (clears \ {c}) \cup {[c EXCEPT !.done = TRUE]}
       /\ conversation_sessions' =
            IF Has(conversation_sessions, c.session_id)
            THEN [k \in DOMAIN conversation_sessions \ {c.session_id} |->
                    conversation_sessions[k]]
            ELSE conversation_sessions
       /\ reply' = [status |-> 200, message |-> c.session_id]
       /\ served' = [served EXCEPT ![c.session_id] = <<>>]
  /\ UNCHANGED <<inbox, pc, request, state, calls, sent,
                 list_versions, list_entries, add_calls>>

NextClear ==
  \/ \E s \in SessionIdInputs, q \in UserTexts : Submit(s, q)
  \/ chat_query_begin
  \/ Router
  \/ Classify
  \/ GenerateSql
  \/ ExecuteSql
  \/ Summarize
  \/ Respond
  \/ \E k \in SessionKeys : RequestClear(k)
  \/ clear_session_next

SpecClear == Init /\ [][NextClear]_vars

\* the step in which a waiting clear request is served
ClearServed == \E c \in clears' \ clears : c.done

\* C36: a clearSession(k) is never undone by a turn on k that was in
\* flight when the clear arrived.  The clear is served only between
\* turns and leaves k without a transcript; and at every moment the
\* transcript of a session holds exactly the two messages of each turn
\* answered since the last clear of that session (served[k] restarts at a
\* clear), the newest TranscriptLimit of them, so no message recorded
\* before a clear is ever present after it.
C36_ClearIsNotUndoneByATurnInFlight ==
  /\ [][ClearServed =>
          /\ pc = "idle" /\ pc' = "idle"
          /\ \A c \in clears' \ clears :
               ~Has(conversation_sessions', c.session_id)]_vars
  /\ [](\A k \in DOMAIN conversation_sessions :
          LET n == Len(served[k])
              transcript == conversation_sessions[k]
          IN  /\ Len(transcript) =
                   IF 2 * n > TranscriptLimit THEN TranscriptLimit ELSE 2 * n
              /\ \A i \in 1..n :
                   2 * (n - i) + 2 <= Len(transcript) =>
                     LET asked == transcript[Len(transcript) - 2 * (n - i) - 1]
                     IN  asked.role = "user" /\ asked.content = served[k][i].query)

\* both requests were turns on "s1"; a clear of "s1" arrived while one of
\* them was in flight and was served after it: "s1" has no transcript
C36_Witness ==
  /\ pc = "idle"
  /\ inbox = {}
  /\ sent = 2
  /\ clears = {[session_id |-> "s1", in_flight |-> TRUE, done |-> TRUE]}
  /\ reply = [status |-> 200, message |-> "s1"]
  /\ conversation_sessions = EmptyDict
  /\ served["s1"] = <<>>

\* ---------------------------------------------------------------------
\* routes/lists.py, add_items_to_list.  The handler is a plain def, so the
\* framework runs each call on a worker thread and calls overlap; every
\* execute() is one request to the data store, atomic by itself, and the
\* handler opens no transaction around them.
\* ---------------------------------------------------------------------

\* the lists of table list_requests, each with a known subdomain
ExistingLists == {1}

\* the list_id path parameters clients send
ListIdInputs == {1, 2}

\* len(payload['items']) of the calls
ItemCounts == {0, 1}

\* how the data store answers the insert of line 302
VersionInsertOutcomes == {"stored", "rejected"}

\* how the data store answers the insert of line 322
ItemsInsertOutcomes == {"stored", "error", "none"}

MaxOf(numbers) == CHOOSE n \in numbers : \A m \in numbers : m <= n

\* the rows of list_versions with request_id = list_id
VersionsOf(table, list_id) == {v \in table : v.request_id = list_id}

InFlight(c) == add_calls[c].pc \notin {"new", "done"}

\* HTTPException or the returned dict: the call is over
Finish(call, status) == [call EXCEPT !.pc = "done", !.status = status]

\* lines 231-240: the call is received; an empty items list is refused.
\* before and alone are kept for the properties only: the versions at the
\* start of the call, and whether no other call overlapped it.
AddItemsBegin(c, list_id, items) ==
  /\ add_calls[c].pc = "new"
  /\ \A d \in AddCalls : d < c => add_calls[d].pc # "new"
  /\ add_calls' =
       [d \in AddCalls |->
          IF d = c
          THEN LET call == [add_calls[c] EXCEPT
                              !.list_id = list_id,
                              !.items = items,
                              !.before = list_versions,
                              !.alone = \A o \in AddCalls \ {c} : ~InFlight(o)]
               IN  IF items = 0
                   THEN Finish(call, 400)
                   ELSE [call EXCEPT !.pc = "find_list"]
          ELSE IF InFlight(d)
               THEN [add_calls[d] EXCEPT !.alone = FALSE]
               ELSE add_calls[d]]
  /\ UNCHANGED <<conversation_sessions, inbox, pc, request, state, calls, reply,
                 served, sent, clears, list_versions, list_entries>>

\* lines 243-272: the list, its subdomain and the entry table are looked up
FindEntryTable(c) ==
  /\ add_calls[c].pc = "find_list"
  /\ add_calls' =
       [add_calls EXCEPT ![c] =
          IF add_calls[c].list_id \in ExistingLists
          THEN [@ EXCEPT !.pc = "read_latest"]
          ELSE Finish(@, 404)]
  /\ UNCHANGED <<conversation_sessions, inbox, pc, request, state, calls, reply,
                 served, sent, clears, list_versions, list_entries>>

\* lines 277-286: next_version is 1, or one more than the highest number read
ReadLatestVersion(c) ==
  /\ add_calls[c].pc = "read_latest"
  /\ LET rows == VersionsOf(list_versions, add_calls[c].list_id)
         next_version ==
           IF rows = {} THEN 1
           ELSE MaxOf({v.version_number : v \in rows}) + 1
     IN  add_calls' =
           [add_calls EXCEPT ![c] =
              [@ EXCEPT !.pc = "reset_current", !.next_version = next_version]]
  /\ UNCHANGED <<conversation_sessions, inbox, pc, request, state, calls, reply,
                 served, sent, clears, list_versions, list_entries>>

\* line 291: every version of the list is set to is_current = False
ResetCurrent(c) ==
  /\ add_calls[c].pc = "reset_current"
  /\ list_versions' =
       {IF v.request_id = add_calls[c].list_id
        THEN [v EXCEPT !.is_current = FALSE]
        ELSE v : v \in list_versions}
  /\ add_calls' = [add_calls EXCEPT ![c] = [@ EXCEPT !.pc = "insert_version"]]
  /\ UNCHANGED <<conversation_sessions, inbox, pc, request, state, calls, reply,
                 served, sent, clears, list_entries>>

\* lines 294-312: the new version is inserted as the current one; a store
\* that returns no row (or raises, lines 345-349) ends the call with 500
InsertVersion(c, outcome) ==
  /\ add_calls[c].pc = "insert_version"
  /\ IF outcome = "stored"
     THEN LET version_id == Cardinality(list_versions) + 1
          IN  /\ list_versions' =
                   list_versions \cup
                     {[version_id |-> version_id,
                       request_id |-> add_calls[c].list_id,
                       version_number |-> add_calls[c].next_version,
                       is_current |-> TRUE]}
              /\ add_calls' =
                   [add_calls EXCEPT ![c] =
                      [@ EXCEPT !.pc = "insert_items", !.version_id = version_id]]
     ELSE /\ list_versions' = list_versions
          /\ add_calls' = [add_calls EXCEPT ![c] = Finish(@, 500)]
  /\ UNCHANGED <<conversation_sessions, inbox, pc, request, state, calls, reply,
                 served, sent, clears, list_entries>>

\* lines 317-341: the items are inserted with the version id; an error of
\* the store is answered with 400 (321-327), no inserted row with 500
\* (329-333), anything else with the success record (335-341)
InsertItems(c, outcome) ==
  /\ add_calls[c].pc = "insert_items"
  /\ list_entries' =
       IF outcome = "stored"
       THEN list_entries \cup {add_calls[c].version_id}
       ELSE list_entries
  /\ add_calls' =
       [add_calls EXCEPT ![c] =
          Finish(@, CASE outcome = "stored" -> 201
                      [] outcome = "error" -> 400
                      [] outcome = "none" -> 500)]
  /\ UNCHANGED <<conversation_sessions, inbox, pc, request, state, calls, reply,
                 served, sent, clears, list_versions>>

NextLists ==
  \/ \E c \in AddCalls, l \in ListIdInputs, n \in ItemCounts : AddItemsBegin(c, l, n)
  \/ \E c \in AddCalls : FindEntryTable(c)
  \/ \E c \in AddCalls : ReadLatestVersion(c)
  \/ \E c \in AddCalls : ResetCurrent(c)
  \/ \E c \in AddCalls, o \in VersionInsertOutcomes : InsertVersion(c, o)
  \/ \E c \in AddCalls, o \in ItemsInsertOutcomes : InsertItems(c, o)

SpecLists == Init /\ [][NextLists]_vars

\* the step in which call c returns its success record (lines 335-341)
AddSucceeds(c) ==
  /\ add_calls[c].pc # "done"
  /\ add_calls'[c].pc = "done"
  /\ add_calls'[c].status = 201

\* after call c: exactly one version of its list is current, it is the one
\* the call created, and its number follows the highest one the list had
\* when the call started
NewVersionIsTheCurrentOne(c) ==
  LET call == add_calls'[c]
      rows == VersionsOf(list_versions', call.list_id)
      old == VersionsOf(call.before, call.list_id)
  IN  /\ \E v \in rows : v.version_id = call.version_id
      /\ \A v \in rows :
           /\ v.is_current <=> v.version_id = call.version_id
           /\ v.version_id = call.version_id =>
                v.version_number =
                  IF old = {} THEN 1
                  ELSE MaxOf({o.version_number : o \in old}) + 1

\* C37: after a successful add_items_to_list on list L exactly one version
\* of L has is_current = true, it is the version this call created, and
\* its version_number is 1 plus the highest version_number L had before
\* the call (1 when L had no version).
C37_SuccessLeavesTheNewVersionCurrent ==
  [][\A c \in AddCalls : AddSucceeds(c) => NewVersionIsTheCurrentOne(c)]_vars

\* the same for the calls that no other call overlapped
C37_HoldsForCallsThatRunAlone ==
  [][\A c \in AddCalls :
       AddSucceeds(c) /\ add_calls'[c].alone => NewVersionIsTheCurrentOne(c)]_vars

\* a call that ran alone on a list with one version succeeded
C37_RanAlone ==
  \E c \in AddCalls :
    /\ add_calls[c].status = 201
    /\ add_calls[c].alone
    /\ add_calls[c].next_version = 2
    /\ add_calls[c].version_id \in list_entries

\* the step in which call c ends with an error after its update of line
\* 291: the version insert failed, or the items insert failed or stored
\* nothing
AddFailsAfterWriting(c) ==
  /\ add_calls[c].pc \in {"insert_version", "insert_items"}
  /\ add_calls'[c].pc = "done"
  /\ add_calls'[c].status # 201

\* C38: if add_items_to_list fails after it has started writing, the
\* versions of the list are as they were before the call: the version
\* that was current is still marked current and no new version without
\* entries remains.  Stated for the calls that no other call overlapped.
C38_FailureLeavesTheVersionsAsTheyWere ==
  [][\A c \in AddCalls :
       AddFailsAfterWriting(c) /\ add_calls'[c].alone =>
         LET call == add_calls'[c]
             rows == VersionsOf(list_versions', call.list_id)
             old == VersionsOf(call.before, call.list_id)
         IN  /\ \A o \in old : o.is_current => o \in rows
             /\ \A v \in rows \ old :
                  \/ v.version_id \in list_entries'
                  \/ \E o \in old : o.version_id = v.version_id]_vars

\* every call that was received has returned
AllCallsFinished == \A c \in AddCalls : ~InFlight(c)

\* C39: two concurrent add_items_to_list calls on the same list never
\* create two versions with the same version_number, and never leave two
\* versions of the list marked is_current once both have finished.
C39_ConcurrentCallsKeepVersionsDistinct ==
  /\ \A v, w \in list_versions :
       v.request_id = w.request_id /\ v.version_number = w.version_number
         => v = w
  /\ AllCallsFinished =>
       \A v, w \in list_versions :
         v.request_id = w.request_id /\ v.is_current /\ w.is_current => v = w

\* the second half alone: at most one current version once all have finished
C39_OneCurrentOnceFinished ==
  AllCallsFinished =>
    \A v, w \in list_versions :
      v.request_id = w.request_id /\ v.is_current /\ w.is_current => v = w

\* with calls that never overlap both halves hold
C39_HoldsForCallsThatRunAlone ==
  (\A c \in AddCalls : add_calls[c].alone) => C39_ConcurrentCallsKeepVersionsDistinct

=============================================================================
